---- MODULE Spec2Model ----
(***************************************************************************)
(* A model of the pairs-trading analytics pipeline of Quant-Project:       *)
(*   - AlertEngine           (src/app/alerts/alert_engine.py)              *)
(*   - the update orchestrator (src/app/ingestion/binance_ws.py) and the   *)
(*     configuration / alert endpoints (src/app/api/routes.py)             *)
(*   - Sampler               (src/app/sampling/sampler.py)                 *)
(*                                                                         *)
(* Numbers.  z-scores, thresholds and correlations handed to AlertEngine   *)
(* are Python floats; they are modelled in tenths (2.0 is 20, 0.5 is 5,    *)
(* 0.7 is 7), which represents every value the claims and the tests use    *)
(* exactly.  Python's None is the empty tuple <<>>, and an optional value  *)
(* v that is present is <<v>>.                                             *)
(***************************************************************************)
EXTENDS Integers, Sequences, FiniteSets, TLC

VARIABLES
    \* ---- AlertEngine (alert_engine.py) ----
    threshold,          \* self.threshold          (tenths)
    reset_threshold,    \* self.reset_threshold    (tenths)
    min_correlation,    \* self.min_correlation    (tenths)
    current_state,      \* self.current_state: "NONE" (Python None), "LONG", "SHORT"
    call,               \* the last evaluate() call: <<>> before the first call, else
                        \* <<[pre, z_score, rolling_correlation, adf_result, timestamp, ret]>>
    outcomes,           \* per call since construction: [alert, state] as a caller sees them
    fed,                \* per call since construction: the arguments (kept by the test driver only)
    \* ---- update orchestrator (binance_ws.py) and API state (routes.py) ----
    now,                \* the wall clock, in seconds (time.time(), datetime.now)
    btc_prices,         \* binance_ws.btc_prices      deque(maxlen=WINDOW_SIZE)
    eth_prices,         \* binance_ws.eth_prices      deque(maxlen=WINDOW_SIZE)
    spread_history,     \* binance_ws.spread_history  deque(maxlen=WINDOW_SIZE)
    history_data,       \* routes.history_data        list of snapshots
    latest_alert,       \* routes.latest_alert        dict
    CURRENT_CONFIG,     \* routes.CURRENT_CONFIG      the name update_config rebinds
    ws_CURRENT_CONFIG,  \* binance_ws.CURRENT_CONFIG  the name bound by the import at line 10
    cycle,              \* the locals of the process_message call that just returned,
                        \* <<>> when the last step was another handler
    rearmed,            \* no alert published yet by update_alerts, or a cycle with
                        \* |z| < exit threshold computed since the last one
    nmsgs,              \* messages received so far beyond the recorded stream
    feed,               \* the recorded stream still to arrive
    \* ---- Sampler (sampler.py), run by BinanceWebsocketClient ----
    active_bars,        \* self.active_bars: key -> <<>> (no entry) or <<bar>>
    emitted,            \* key -> the bars _finalize_bar logged, in order
    dropped,            \* key -> the bars _finalize_bar discarded, in order
    admitted,           \* key -> the ticks that passed the late check, in order
    nticks,             \* ticks handed to process_tick so far (bounds the run)
    tick_call,          \* the last step if it was a process_tick call: its tick, its clock
                        \* readings and the keys its closure check finalized
    \* ---- analytics library (app/analytics) ----
    lib_call,           \* the last call of a library function: <<>> before the first,
                        \* else <<[fn, its arguments, result]>>
    \* ---- the event loop of the application (main.py) ----
    loop,               \* [pc, data, before, seen]: where the ingestion task stands in
                        \* process_message, the message and the state it started from,
                        \* and what the last request handler found in memory
    \* ---- the HTTP interface (routes.py) ----
    http                \* the last request answered by one of the handlers that record
                        \* it: <<[route, status, body]>>, <<>> before the first

engineVars == <<threshold, reset_threshold, min_correlation, current_state, call, outcomes, fed>>

pipeVars == <<btc_prices, eth_prices, spread_history, history_data, latest_alert,
              CURRENT_CONFIG, ws_CURRENT_CONFIG, cycle, rearmed, nmsgs, feed>>

samplerVars == <<active_bars, emitted, dropped, admitted, nticks, tick_call>>

auxVars == <<lib_call, loop, http>>

vars == <<engineVars, now, pipeVars, samplerVars, auxVars>>

None == <<>>
Some(v) == <<v>>
Val(o) == o[1]

Abs(x) == IF x < 0 THEN -x ELSE x

(***************************************************************************)
(* Bounds of the model.                                                    *)
(***************************************************************************)
\* evaluate() calls made on one AlertEngine object before it is replaced
MaxCalls == 3
\* evaluate() calls the test driver makes on one AlertEngine object
MaxScript == 4

(***************************************************************************)
(* AlertEngine                                                             *)
(***************************************************************************)
\* Constructor arguments: the defaults of __init__ (also the test's engine),
\* and a second engine with other thresholds.
EngineParams ==
    { [threshold |-> 20, reset_threshold |-> 5,  min_correlation |-> 7],
      [threshold |-> 25, reset_threshold |-> 20, min_correlation |-> 9] }

\* Arguments of evaluate(): undefined, on, just inside and just outside every
\* threshold of EngineParams, and the values of tests/test_alerts.py.
ZScores == {None} \cup { Some(z) : z \in {-25, -20, -19, -5, -4, 1, 4, 5, 19, 20, 25, 26} }
Correlations == {None} \cup { Some(c) : c \in {4, 6, 7, 9} }
AdfResults ==
    { None,
      Some([is_stationary |-> TRUE]),
      Some([is_stationary |-> FALSE]),
      Some([p_value |-> 1]) }            \* a dict without the is_stationary key
Timestamps == { "2025-01-01T10:00:00" }

\* The arguments test_alert_engine passes.
TestParams == [threshold |-> 20, reset_threshold |-> 5, min_correlation |-> 7]
TestZScores == { Some(z) : z \in {25, 26, 1, -25} }
TestCorrelations == { Some(9), Some(4) }
TestAdfResults == { Some([is_stationary |-> TRUE]), Some([is_stationary |-> FALSE]) }

\* line 39: z_score is None or rolling_correlation is None or adf_result is None
InputsUndefined(z, c, a) == z = None \/ c = None \/ a = None

\* (mutant) an undefined input clears the state
UndefinedResult_reset(state) == [state |-> "NONE", ret |-> None]

\* line 40: return None, state untouched
UndefinedResult(state) == [state |-> state, ret |-> None]

\* line 44: self.current_state is not None
HoldsState(state) == state # "NONE"

\* (mutant) the reset threshold taken inclusive
ShouldReset_inclusive(z, R) == Abs(z) <= R

\* (mutant) the reset test without abs()
ShouldReset_noAbs(z, R) == z < R

\* line 45: abs(z_score) < self.reset_threshold
ShouldReset(z, R) == Abs(z) < R

\* line 58: rolling_correlation < self.min_correlation
CorrelationTooLow(c, C) == c < C

\* (mutant) a missing is_stationary key read as True
IsStationary_defaultTrue(a) == IF "is_stationary" \in DOMAIN a THEN a.is_stationary ELSE TRUE

\* line 62: adf_result.get('is_stationary', False)
IsStationary(a) == IF "is_stationary" \in DOMAIN a THEN a.is_stationary ELSE FALSE

\* (mutant) the entry thresholds taken strict
TriggerSignal_strict(z, T) ==
    IF z > T THEN "SHORT"
    ELSE IF z < -T THEN "LONG"
    ELSE "NONE"

\* lines 66-75: the signal and its reason, "NONE" when neither threshold is met
TriggerSignal(z, T) ==
    IF z >= T THEN "SHORT"
    ELSE IF z <= -T THEN "LONG"
    ELSE "NONE"

TriggerReason(signal) == IF signal = "SHORT" THEN "Overbought" ELSE "Oversold"

\* (mutant) the alert is built but current_state is not updated
Trigger_stateNotSet(signal, z, c, ts) ==
    [state |-> "NONE",
     ret   |-> Some([timestamp |-> ts, signal |-> signal, z_score |-> z,
                     correlation |-> c, reason |-> TriggerReason(signal)])]

\* lines 77-88: update the state and construct the alert
Trigger(signal, z, c, ts) ==
    [state |-> signal,
     ret   |-> Some([timestamp |-> ts, signal |-> signal, z_score |-> z,
                     correlation |-> c, reason |-> TriggerReason(signal)])]

\* lines 26-90: AlertEngine.evaluate as a function of the object's fields and the
\* arguments; the result is the new current_state and the returned value.
evaluate_filtersFirst(state, T, R, C, z, c, a, ts) ==
    IF InputsUndefined(z, c, a) THEN UndefinedResult(state)
    ELSE IF CorrelationTooLow(Val(c), C) THEN [state |-> state, ret |-> None]
    ELSE IF ~IsStationary(Val(a)) THEN [state |-> state, ret |-> None]
    ELSE IF HoldsState(state) THEN
        IF ShouldReset(Val(z), R) THEN [state |-> "NONE", ret |-> None]
        ELSE [state |-> state, ret |-> None]
    ELSE LET signal == TriggerSignal(Val(z), T) IN
        IF signal # "NONE" THEN Trigger(signal, Val(z), Val(c), ts)
        ELSE [state |-> state, ret |-> None]

evaluate(state, T, R, C, z, c, a, ts) ==
    IF InputsUndefined(z, c, a) THEN UndefinedResult(state)
    ELSE IF HoldsState(state) THEN
        IF ShouldReset(Val(z), R) THEN [state |-> "NONE", ret |-> None]
        ELSE [state |-> state, ret |-> None]
    ELSE IF CorrelationTooLow(Val(c), C) THEN [state |-> state, ret |-> None]
    ELSE IF ~IsStationary(Val(a)) THEN [state |-> state, ret |-> None]
    ELSE LET signal == TriggerSignal(Val(z), T) IN
        IF signal # "NONE" THEN Trigger(signal, Val(z), Val(c), ts)
        ELSE [state |-> state, ret |-> None]

\* AlertEngine.__init__
EngineInit(p) ==
    /\ threshold = p.threshold
    /\ reset_threshold = p.reset_threshold
    /\ min_correlation = p.min_correlation
    /\ current_state = "NONE"
    /\ call = None
    /\ outcomes = <<>>
    /\ fed = <<>>

\* AlertEngine.__init__ for an object that replaces the old one
EngineNew(p) ==
    /\ threshold' = p.threshold
    /\ reset_threshold' = p.reset_threshold
    /\ min_correlation' = p.min_correlation
    /\ current_state' = "NONE"
    /\ call' = None
    /\ outcomes' = <<>>
    /\ fed' = <<>>
    /\ UNCHANGED <<auxVars, now, pipeVars, samplerVars>>

\* A caller constructs a new engine.
Construct == \E p \in EngineParams : EngineNew(p)

\* tests/test_alerts.py line 15: the test constructs its engine.
TestConstruct == EngineNew(TestParams)

\* One call engine.evaluate(z, c, a, ts).
EvaluateCall(z, c, a, ts, keep) ==
    LET r == evaluate(current_state, threshold, reset_threshold, min_correlation, z, c, a, ts) IN
    /\ current_state' = r.state
    /\ call' = Some([pre |-> current_state, z_score |-> z, rolling_correlation |-> c,
                     adf_result |-> a, timestamp |-> ts, ret |-> r.ret])
    /\ outcomes' = Append(outcomes, [alert |-> r.ret, state |-> r.state])
    /\ fed' = IF keep THEN Append(fed, [z_score |-> z, rolling_correlation |-> c, adf_result |-> a])
              ELSE fed
    /\ UNCHANGED <<auxVars, threshold, reset_threshold, min_correlation, now, pipeVars, samplerVars>>

\* Any caller: any arguments.
Evaluate ==
    /\ Len(outcomes) < MaxCalls
    /\ \E z \in ZScores, c \in Correlations, a \in AdfResults, ts \in Timestamps :
           EvaluateCall(z, c, a, ts, FALSE)

\* tests/test_alerts.py: the test's arguments in any order, the arguments recorded.
TestEvaluate ==
    /\ Len(outcomes) < MaxScript
    /\ \E z \in TestZScores, c \in TestCorrelations, a \in TestAdfResults, ts \in Timestamps :
           EvaluateCall(z, c, a, ts, TRUE)

(***************************************************************************)
(* The update orchestrator (binance_ws.py) with the state it shares with   *)
(* the API (routes.py).                                                    *)
(*                                                                         *)
(* Prices and spreads are integers.  A z-score or a correlation is the     *)
(* real number num / sqrt(den2), kept as the record [num, den2] with       *)
(* den2 > 0, and compared with a threshold given in tenths by comparing    *)
(* squares: the arithmetic is that of the reals, not of IEEE doubles.      *)
(***************************************************************************)
\* binance_ws.py line 16
WINDOW_SIZE == 50
\* binance_ws.py line 86
HEDGE_RATIO == 25
\* binance_ws.py line 91: snapshots start at this many spreads
MinSpreads == 5
\* binance_ws.py line 110: a correlation needs this many aligned prices
MinCorrLen == 20
\* routes.py line 47
HISTORY_LENGTH == 50

\* messages one run receives after its initial state
MaxMsgs == 3
\* seconds the wall clock advances in one run
MaxClock == 1
\* the import time of routes.py: HISTORY_LENGTH - 1 minutes after the oldest mock snapshot
StartTime == 60 * (HISTORY_LENGTH - 1)

\* sum(q[1..n]) and sum(q[i] * r[i] for i in 1..n)
RECURSIVE SumTo(_, _)
SumTo(q, n) == IF n = 0 THEN 0 ELSE q[n] + SumTo(q, n - 1)
SumSeq(q) == SumTo(q, Len(q))

RECURSIVE SumProdTo(_, _, _)
SumProdTo(q, r, n) == IF n = 0 THEN 0 ELSE q[n] * r[n] + SumProdTo(q, r, n - 1)
SumProd(q, r) == SumProdTo(q, r, Len(q))

\* list(q)[-n:] for 0 < n <= len(q)
LastN(q, n) == SubSeq(q, Len(q) - n + 1, Len(q))

Min(a, b) == IF a <= b THEN a ELSE b

\* (mutant) append of a deque that evicts the newest value when full
DequeAppend_evictNewest(q, v) ==
    IF Len(q) >= WINDOW_SIZE THEN Append(SubSeq(q, 1, Len(q) - 1), v) ELSE Append(q, v)

\* deque(maxlen=WINDOW_SIZE).append
DequeAppend(q, v) == IF Len(q) >= WINDOW_SIZE THEN Append(Tail(q), v) ELSE Append(q, v)

\* the real number n / 10 in the [num, den2] form
Tenths(n) == [num |-> n, den2 |-> 100]
Zero == [num |-> 0, den2 |-> 1]

\* v > t/10, v < t/10 and |v| < t/10 for v = num / sqrt(den2) and t in tenths
GtTenths(v, t) ==
    IF t >= 0 THEN v.num > 0 /\ 100 * v.num * v.num > t * t * v.den2
    ELSE v.num >= 0 \/ 100 * v.num * v.num < t * t * v.den2
LtTenths(v, t) ==
    IF t > 0 THEN v.num <= 0 \/ 100 * v.num * v.num < t * t * v.den2
    ELSE v.num < 0 /\ 100 * v.num * v.num > t * t * v.den2
AbsLtTenths(v, t) == t > 0 /\ 100 * v.num * v.num < t * t * v.den2

\* lines 95-101: np.mean, np.std (population) and the z-score of the newest spread;
\* the std of integers is above 1e-6 exactly when it is not zero
ZScoreOf(spreads, spread) ==
    LET n == Len(spreads)
        S == SumSeq(spreads)
        Q == SumProd(spreads, spreads)
    IN IF n * Q - S * S > 0
       THEN [num |-> n * spread - S, den2 |-> n * Q - S * S]
       ELSE Zero

CorrelationOf_head(btc, eth) ==
    LET n  == Min(Len(btc), Len(eth))
        x  == SubSeq(btc, 1, n)
        y  == SubSeq(eth, 1, n)
        vx == n * SumProd(x, x) - SumSeq(x) * SumSeq(x)
        vy == n * SumProd(y, y) - SumSeq(y) * SumSeq(y)
    IN IF n < MinCorrLen \/ vx = 0 \/ vy = 0
       THEN None
       ELSE Some([num |-> n * SumProd(x, y) - SumSeq(x) * SumSeq(y), den2 |-> vx * vy])

\* lines 105-115: the correlation of the aligned tails, None below MinCorrLen
\* values or when either tail is constant
CorrelationOf(btc, eth) ==
    LET n  == Min(Len(btc), Len(eth))
        x  == LastN(btc, n)
        y  == LastN(eth, n)
        vx == n * SumProd(x, x) - SumSeq(x) * SumSeq(x)
        vy == n * SumProd(y, y) - SumSeq(y) * SumSeq(y)
    IN IF n < MinCorrLen \/ vx = 0 \/ vy = 0
       THEN None
       ELSE Some([num |-> n * SumProd(x, y) - SumSeq(x) * SumSeq(y), den2 |-> vx * vy])

\* line 144: corr is not None and corr < min_corr
CorrTooWeak(corr, min_corr) == corr # None /\ LtTenths(Val(corr), min_corr)

\* lines 147-151
AlertSignal(z, thr) ==
    IF GtTenths(z, thr) THEN "SHORT"
    ELSE IF LtTenths(z, -thr) THEN "LONG"
    ELSE "NONE"

\* line 118
StationaryFlag(z, thr) == AbsLtTenths(z, thr)

\* TradingConfig(), routes.py lines 35-41, in tenths
DefaultConfig == [zscore_entry_threshold |-> 20, zscore_exit_threshold |-> 5, min_correlation |-> 7]

\* The state the orchestrator works on, as one value.
PipeState(b, e, sp, h, la, cy, re) ==
    [btc_prices |-> b, eth_prices |-> e, spread_history |-> sp, history_data |-> h,
     latest_alert |-> la, cycle |-> cy, rearmed |-> re]

\* The locals of one process_message call, as far as the call got.
Cycle(stage, z, corr, stat, thr, mc, sig) ==
    Some([stage |-> stage, zscore |-> z, correlation |-> corr, is_stationary |-> stat,
          threshold |-> thr, min_corr |-> mc, alert_signal |-> sig,
          published |-> (stage = "alerts" /\ sig # "NONE")])

\* lines 137-160: update_alerts(data) with the configuration object cfg that the
\* name CURRENT_CONFIG of binance_ws refers to; exitT is the exit threshold of
\* the configuration in force, which only the history variable rearmed reads
update_alerts(st, data, stat, cfg, exitT) ==
    LET z == data.zscore
        thr == cfg.zscore_entry_threshold
        min_corr == cfg.min_correlation
        corr == data.correlation
        neutral == AbsLtTenths(z, exitT)
    IN IF CorrTooWeak(corr, min_corr)
       THEN [st EXCEPT !.cycle = Cycle("weak", z, corr, stat, thr, min_corr, "NONE"),
                       !.rearmed = st.rearmed \/ neutral]
       ELSE LET alert_signal == AlertSignal(z, thr) IN
            IF alert_signal # "NONE"
            THEN [st EXCEPT
                    !.latest_alert = [timestamp |-> data.timestamp, type |-> "SIGNAL",
                                      signal |-> alert_signal, z_score |-> z,
                                      reason |-> <<"crossed", alert_signal>>],
                    !.cycle = Cycle("alerts", z, corr, stat, thr, min_corr, alert_signal),
                    !.rearmed = FALSE]
            ELSE [st EXCEPT !.cycle = Cycle("alerts", z, corr, stat, thr, min_corr, "NONE"),
                            !.rearmed = st.rearmed \/ neutral]

\* (mutant) update_analytics publishing one spread earlier
update_analytics_early(st, timestamp, cfg, exitT) ==
    LET current_btc == st.btc_prices[Len(st.btc_prices)]
        current_eth == st.eth_prices[Len(st.eth_prices)]
        spread == current_btc - (HEDGE_RATIO * current_eth)
        spreads == DequeAppend(st.spread_history, spread)
        st1 == [st EXCEPT !.spread_history = spreads]
    IN IF Len(spreads) < MinSpreads - 1
       THEN [st1 EXCEPT !.cycle = Cycle("spread", Zero, None, FALSE, 0, 0, "NONE")]
       ELSE LET zscore == ZScoreOf(spreads, spread)
                correlation == CorrelationOf(st.btc_prices, st.eth_prices)
                is_stationary == StationaryFlag(zscore, cfg.zscore_entry_threshold)
                new_data_point == [timestamp |-> timestamp, zscore |-> zscore,
                                   spread |-> spread, correlation |-> correlation,
                                   hedge_ratio |-> 10 * HEDGE_RATIO]
                appended == Append(st.history_data, new_data_point)
                history == IF Len(appended) > WINDOW_SIZE THEN Tail(appended) ELSE appended
            IN update_alerts([st1 EXCEPT !.history_data = history],
                             new_data_point, is_stationary, cfg, exitT)

\* lines 74-135: update_analytics(timestamp)
update_analytics(st, timestamp, cfg, exitT) ==
    LET current_btc == st.btc_prices[Len(st.btc_prices)]
        current_eth == st.eth_prices[Len(st.eth_prices)]
        spread == current_btc - (HEDGE_RATIO * current_eth)
        spreads == DequeAppend(st.spread_history, spread)
        st1 == [st EXCEPT !.spread_history = spreads]
    IN IF Len(spreads) < MinSpreads
       THEN [st1 EXCEPT !.cycle = Cycle("spread", Zero, None, FALSE, 0, 0, "NONE")]
       ELSE LET zscore == ZScoreOf(spreads, spread)
                correlation == CorrelationOf(st.btc_prices, st.eth_prices)
                is_stationary == StationaryFlag(zscore, cfg.zscore_entry_threshold)
                new_data_point == [timestamp |-> timestamp, zscore |-> zscore,
                                   spread |-> spread, correlation |-> correlation,
                                   hedge_ratio |-> 10 * HEDGE_RATIO]
                appended == Append(st.history_data, new_data_point)
                history == IF Len(appended) > WINDOW_SIZE THEN Tail(appended) ELSE appended
            IN update_alerts([st1 EXCEPT !.history_data = history],
                             new_data_point, is_stationary, cfg, exitT)

\* A message as json.loads delivers it: the symbol 's' and the price field 'p',
\* which is a number, a text float() rejects, or missing.
Price(v) == [kind |-> "number", value |-> v]
BadPrice == [kind |-> "text"]
NoPrice == [kind |-> "missing"]

\* line 50: float(data.get('p', 0)); raises on a text that is no number
PriceRaises(data) == data.p.kind = "text"
PriceOf(data) == IF data.p.kind = "missing" THEN 0 ELSE data.p.value

\* lines 43-72: process_message(data) at wall-clock time t
process_message(st, data, t, cfg, exitT) ==
    IF PriceRaises(data)
    THEN [st EXCEPT !.cycle = Cycle("raised", Zero, None, FALSE, 0, 0, "NONE")]
    ELSE LET price == PriceOf(data)
             st1 == IF data.s = "BTCUSDT"
                    THEN [st EXCEPT !.btc_prices = DequeAppend(st.btc_prices, price)]
                    ELSE IF data.s = "ETHUSDT"
                    THEN [st EXCEPT !.eth_prices = DequeAppend(st.eth_prices, price)]
                    ELSE st
         IN IF data.s \notin {"BTCUSDT", "ETHUSDT"}
            THEN [st EXCEPT !.cycle = Cycle("unknown", Zero, None, FALSE, 0, 0, "NONE")]
            ELSE IF Len(st1.btc_prices) > 1 /\ Len(st1.eth_prices) > 1
            THEN update_analytics(st1, t, cfg, exitT)
            ELSE [st1 EXCEPT !.cycle = Cycle("buffered", Zero, None, FALSE, 0, 0, "NONE")]

Msg(s, p) == [s |-> s, p |-> p]

\* The messages a run receives: trades of both symbols at a usual and an unusual
\* price, a trade without price field, one with an unparseable price, and a
\* third symbol.
Messages ==
    { Msg("BTCUSDT", Price(50)), Msg("BTCUSDT", Price(75)), Msg("ETHUSDT", Price(2)),
      Msg("BTCUSDT", NoPrice), Msg("ETHUSDT", BadPrice), Msg("XRPUSDT", Price(1)) }

\* routes.py lines 50-74: generate_history() at import; the random z-scores,
\* spreads and correlations are fixed to values of their ranges (tenths for the
\* hedge ratio)
MockZ == << Tenths(-25), Zero, Tenths(25) >>
MockHistory ==
    [i \in 1..HISTORY_LENGTH |->
        [timestamp |-> StartTime - 60 * (HISTORY_LENGTH - i),
         zscore |-> MockZ[(i % 3) + 1], spread |-> 100,
         correlation |-> Some(Tenths(8)), hedge_ratio |-> 12]]

\* routes.py lines 112-118: the mock alert built at import
MockAlert ==
    [timestamp |-> StartTime, type |-> "SIGNAL", signal |-> "SHORT", z_score |-> Tenths(25),
     reason |-> <<"Z-Score crossed upper threshold">>]

\* The state right after the modules are imported.
ColdState == PipeState(<<>>, <<>>, <<>>, MockHistory, MockAlert, None, TRUE)

\* Message streams that fill the windows: twenty trades of each symbol, the two
\* prices moving together (high correlation) or not (low correlation).
WarmHigh ==
    [i \in 1..(2 * MinCorrLen) |->
        IF i % 2 = 1 THEN Msg("BTCUSDT", Price(IF i <= MinCorrLen THEN 25 ELSE 50))
        ELSE Msg("ETHUSDT", Price(IF i <= MinCorrLen THEN 1 ELSE 2))]
WarmLow ==
    [i \in 1..(2 * MinCorrLen) |->
        IF i % 2 = 1 THEN Msg("BTCUSDT", Price(IF i % 4 = 1 THEN 25 ELSE 50))
        ELSE Msg("ETHUSDT", Price(IF i <= MinCorrLen THEN 1 ELSE 2))]

\* Four trades of each symbol at constant prices: five spreads, and too few
\* prices for a correlation.
WarmShort ==
    [i \in 1..8 |-> IF i % 2 = 1 THEN Msg("BTCUSDT", Price(50)) ELSE Msg("ETHUSDT", Price(2))]

\* One trade more of each symbol than the windows hold, every tenth BTCUSDT trade
\* at the unusual price: all three windows are full and have evicted.
WarmFull ==
    [i \in 1..(2 * (WINDOW_SIZE + 1)) |->
        IF i % 2 = 1 THEN Msg("BTCUSDT", Price(IF i % 20 = 1 THEN 75 ELSE 50))
        ELSE Msg("ETHUSDT", Price(2))]

\* The recorded streams a run may replay before anything else happens.
Feeds == { <<>>, WarmShort, WarmHigh, WarmLow }

\* The pipeline's variables hold the state st.
PipeIs(st) ==
    /\ btc_prices = st.btc_prices
    /\ eth_prices = st.eth_prices
    /\ spread_history = st.spread_history
    /\ history_data = st.history_data
    /\ latest_alert = st.latest_alert
    /\ cycle = st.cycle
    /\ rearmed = st.rearmed

PipeInit ==
    /\ now = StartTime
    /\ PipeIs(ColdState)
    /\ feed \in Feeds
    /\ CURRENT_CONFIG = DefaultConfig
    /\ ws_CURRENT_CONFIG = DefaultConfig
    /\ nmsgs = 0

\* start_binance_ws lines 36-38: the message data is received and processed at
\* the current time.  The configuration read is the object the import at line 10
\* bound.
Receive(data) ==
    LET st == process_message(
                  PipeState(btc_prices, eth_prices, spread_history, history_data,
                            latest_alert, cycle, rearmed),
                  data, now, ws_CURRENT_CONFIG, CURRENT_CONFIG.zscore_exit_threshold)
    IN /\ btc_prices' = st.btc_prices
       /\ eth_prices' = st.eth_prices
       /\ spread_history' = st.spread_history
       /\ history_data' = st.history_data
       /\ latest_alert' = st.latest_alert
       /\ cycle' = st.cycle
       /\ rearmed' = st.rearmed
       /\ UNCHANGED <<auxVars, engineVars, samplerVars, now, CURRENT_CONFIG, ws_CURRENT_CONFIG>>

\* The next message of the recorded stream arrives.
ReplayMessage ==
    /\ feed # <<>>
    /\ Receive(Head(feed))
    /\ feed' = Tail(feed)
    /\ nmsgs' = nmsgs

\* Any message arrives.
ProcessMessage ==
    /\ feed = <<>>
    /\ nmsgs < MaxMsgs
    /\ \E data \in Messages : Receive(data)
    /\ nmsgs' = nmsgs + 1
    /\ feed' = feed

\* Request bodies of POST /config, in tenths: two valid changes, the defaults,
\* and one body for each validation rule.
PostedConfigs ==
    { DefaultConfig,
      [zscore_entry_threshold |-> 60, zscore_exit_threshold |-> 5, min_correlation |-> 7],
      [zscore_entry_threshold |-> 20, zscore_exit_threshold |-> 5, min_correlation |-> 10],
      [zscore_entry_threshold |-> 5,  zscore_exit_threshold |-> 5, min_correlation |-> 7],
      [zscore_entry_threshold |-> 20, zscore_exit_threshold |-> 5, min_correlation |-> 11] }

\* routes.py lines 212-215: the request is rejected with status 400
ConfigRejected(config) ==
    \/ config.zscore_entry_threshold <= config.zscore_exit_threshold
    \/ ~(0 <= config.min_correlation /\ config.min_correlation <= 10)

\* routes.py lines 209-219: POST /config rebinds the name CURRENT_CONFIG of
\* routes; the name imported into binance_ws keeps its object.
update_config ==
    /\ feed = <<>>
    /\ \E config \in PostedConfigs :
          CURRENT_CONFIG' = IF ConfigRejected(config) THEN CURRENT_CONFIG ELSE config
    /\ cycle' = None
    /\ UNCHANGED <<auxVars, engineVars, samplerVars, now, btc_prices, eth_prices, spread_history, history_data,
                   latest_alert, ws_CURRENT_CONFIG, rearmed, nmsgs, feed>>

\* routes.py lines 196-201: GET /alerts/latest stamps the alert with the time of
\* the request.
get_latest_alert_endpoint ==
    /\ feed = <<>>
    /\ latest_alert' = [latest_alert EXCEPT !.timestamp = now]
    /\ cycle' = None
    /\ UNCHANGED <<auxVars, engineVars, samplerVars, now, btc_prices, eth_prices, spread_history, history_data,
                   CURRENT_CONFIG, ws_CURRENT_CONFIG, rearmed, nmsgs, feed>>

\* A second passes.
ClockTick ==
    /\ feed = <<>>
    /\ now < StartTime + MaxClock
    /\ now' = now + 1
    /\ UNCHANGED <<auxVars, engineVars, pipeVars, samplerVars>>

(***************************************************************************)
(* Sampler (sampler.py), as BinanceWebsocketClient drives it.              *)
(*                                                                         *)
(* Time is in whole seconds: the wall clock is rounded up and a tick's     *)
(* timestamp down, which keeps every comparison of the code (a period      *)
(* start or end, always a whole second, against the clock) as it is.       *)
(***************************************************************************)
\* sampler.py line 28
timeframes == <<1, 60, 300>>

Symbols == {"BTCUSDT", "ETHUSDT"}
Keys == Symbols \X {timeframes[i] : i \in 1..Len(timeframes)}

\* ticks one run processes
MaxTicks == 3
\* seconds the sampler's wall clock advances in one run
MaxSampClock == 3
\* the run starts one second before a boundary of every timeframe
SamplerStart == timeframes[3] - 1

\* A normalized tick's timestamp relative to the wall clock when it is late and
\* when it is ahead, and its price and quantity.
TsLate == -2
TsAhead == 1
PriceQty == { <<10, 1>>, <<10, 0>>, <<0, 1>> }

\* (mutant) _get_period_start without the alignment
get_period_start_unaligned(timestamp, period_seconds) == timestamp

\* lines 33-39: _get_period_start
get_period_start(timestamp, period_seconds) == (timestamp \div period_seconds) * period_seconds

\* lines 41-55: _create_bar
create_bar(symbol, start_time, period_seconds, price, qty) ==
    [symbol |-> symbol, start_time |-> start_time, end_time |-> start_time + period_seconds,
     open |-> price, high |-> price, low |-> price, close |-> price,
     volume |-> qty, count |-> 1]

\* (mutant) _update_bar without close = price
update_bar_keepClose(bar, price, qty) ==
    [bar EXCEPT !.high = IF price > bar.high THEN price ELSE bar.high,
                !.low = IF price < bar.low THEN price ELSE bar.low,
                !.volume = bar.volume + qty,
                !.count = bar.count + 1]

\* (mutant) _update_bar without count += 1
update_bar_noCount(bar, price, qty) ==
    [bar EXCEPT !.high = IF price > bar.high THEN price ELSE bar.high,
                !.low = IF price < bar.low THEN price ELSE bar.low,
                !.close = price,
                !.volume = bar.volume + qty]

\* lines 57-65: _update_bar
update_bar(bar, price, qty) ==
    [bar EXCEPT !.high = IF price > bar.high THEN price ELSE bar.high,
                !.low = IF price < bar.low THEN price ELSE bar.low,
                !.close = price,
                !.volume = bar.volume + qty,
                !.count = bar.count + 1]

\* (mutant) _finalize_bar testing the volume alone
Discarded_volumeOnly(bar) == bar.volume <= 0

\* lines 72-74: _finalize_bar logs nothing for this bar
Discarded(bar) == bar.volume <= 0 \/ bar.close <= 0

\* What the sampler holds for one key: its entry of active_bars and its logs.
KeyState(bar, e, d, ad) == [bar |-> bar, emitted |-> e, dropped |-> d, admitted |-> ad]

\* lines 67-85: _finalize_bar(timeframe_sec, bar)
finalize_bar(ks, bar) ==
    IF Discarded(bar)
    THEN [ks EXCEPT !.dropped = Append(ks.dropped, bar)]
    ELSE [ks EXCEPT !.emitted = Append(ks.emitted, bar)]

\* lines 96-102: the body of the loop of _check_buffer_closures for one key, at
\* clock t: the bar is finalized and deleted when t is past its end_time
Overdue(ks, t) == ks.bar # None /\ t > Val(ks.bar).end_time
close_if_over_keepBar(ks, t) ==
    IF Overdue(ks, t)
    THEN finalize_bar(ks, Val(ks.bar))
    ELSE ks
close_if_over(ks, t) ==
    IF Overdue(ks, t)
    THEN [finalize_bar(ks, Val(ks.bar)) EXCEPT !.bar = None]
    ELSE ks

\* (mutant) the loop body without the late check of lines 131-134
process_timeframe_noLateCheck(ks, tick, tf, t) ==
    LET period_start == get_period_start(tick.timestamp, tf)
        fresh == create_bar(tick.symbol, period_start, tf, tick.price, tick.quantity)
        ks1 == [ks EXCEPT !.admitted = Append(ks.admitted, tick)]
    IN IF ks.bar # None
       THEN IF period_start = Val(ks.bar).start_time
            THEN [ks1 EXCEPT !.bar = Some(update_bar(Val(ks.bar), tick.price, tick.quantity))]
            ELSE [finalize_bar(ks1, Val(ks.bar)) EXCEPT !.bar = Some(fresh)]
       ELSE [ks1 EXCEPT !.bar = Some(fresh)]

\* (mutant) the loop body replacing a bar of another period without finalizing it
process_timeframe_dropStale(ks, tick, tf, t) ==
    LET period_start == get_period_start(tick.timestamp, tf)
        period_end == period_start + tf
        fresh == create_bar(tick.symbol, period_start, tf, tick.price, tick.quantity)
        ks1 == [ks EXCEPT !.admitted = Append(ks.admitted, tick)]
    IN IF period_end < t THEN ks
       ELSE IF ks.bar # None /\ period_start = Val(ks.bar).start_time
       THEN [ks1 EXCEPT !.bar = Some(update_bar(Val(ks.bar), tick.price, tick.quantity))]
       ELSE [ks1 EXCEPT !.bar = Some(fresh)]

\* lines 127-159: the body of the loop of process_tick for timeframe tf, on the
\* state of the key (tick.symbol, tf), at clock t
process_timeframe(ks, tick, tf, t) ==
    LET period_start == get_period_start(tick.timestamp, tf)
        period_end == period_start + tf
        fresh == create_bar(tick.symbol, period_start, tf, tick.price, tick.quantity)
        ks1 == [ks EXCEPT !.admitted = Append(ks.admitted, tick)]
    IN IF period_end < t THEN ks
       ELSE IF ks.bar # None
       THEN IF period_start = Val(ks.bar).start_time
            THEN [ks1 EXCEPT !.bar = Some(update_bar(Val(ks.bar), tick.price, tick.quantity))]
            ELSE [finalize_bar(ks1, Val(ks.bar)) EXCEPT !.bar = Some(fresh)]
       ELSE [ks1 EXCEPT !.bar = Some(fresh)]

\* (mutant) process_tick checking the closure of the tick's own keys only
process_tick_ownKeys(ks, key, tick, t1, t2) ==
    IF tick # None /\ Val(tick).symbol = key[1]
    THEN process_timeframe(close_if_over(ks, t1), Val(tick), key[2], t2)
    ELSE ks

\* lines 104-162: process_tick(tick), as it acts on one key; t1 is the clock read
\* by the closure check (line 92), t2 the clock read at line 124; tick = None is
\* an empty tick.  _check_buffer_closures visits every key, the loop over
\* self.timeframes the keys of the tick's symbol, and no key's outcome depends on
\* another key.
process_tick(ks, key, tick, t1, t2) ==
    IF tick # None /\ Val(tick).symbol = key[1]
    THEN process_timeframe(close_if_over(ks, t1), Val(tick), key[2], t2)
    ELSE close_if_over(ks, t1)

NoBars == [k \in Keys |-> None]
NoLog == [k \in Keys |-> <<>>]

\* Sampler.__init__
SamplerInit ==
    /\ active_bars = NoBars
    /\ emitted = NoLog
    /\ dropped = NoLog
    /\ admitted = NoLog
    /\ nticks = 0
    /\ tick_call = None

\* The ticks that may arrive when the clock reads t: for the first symbol every
\* price and quantity on time and a plain trade ahead of the clock, for the
\* other symbol a plain trade behind the clock.
Tick(ts, s, pq) == [timestamp |-> ts, symbol |-> s, price |-> pq[1], quantity |-> pq[2]]
Ticks(t) ==
    { Tick(t, "BTCUSDT", pq) : pq \in PriceQty }
        \cup { Tick(t + TsAhead, "BTCUSDT", <<10, 1>>), Tick(t + TsLate, "ETHUSDT", <<10, 1>>) }

\* The state of key before the call.
Held(key) == KeyState(active_bars[key], emitted[key], dropped[key], admitted[key])

\* One call self.sampler.process_tick(tick).
CallProcessTick(tick, t1, t2) ==
    LET after == [key \in Keys |-> process_tick(Held(key), key, tick, t1, t2)]
        swept == {key \in Keys : Overdue(Held(key), t1)}
    IN /\ tick_call' = Some([tick |-> tick, t1 |-> t1, t2 |-> t2, swept |-> swept])
       /\ active_bars' = [key \in Keys |-> after[key].bar]
       /\ emitted' = [key \in Keys |-> after[key].emitted]
       /\ dropped' = [key \in Keys |-> after[key].dropped]
       /\ admitted' = [key \in Keys |-> after[key].admitted]

\* websocket_client.py lines 110-113: a trade is normalized and handed to the
\* sampler; the clock may move on between the two readings of process_tick.
SamplerTick ==
    /\ nticks < MaxTicks
    /\ nticks' = nticks + 1
    /\ \E tick \in Ticks(now), t2 \in {now, now + 1} :
          /\ t2 <= SamplerStart + MaxSampClock
          /\ CallProcessTick(Some(tick), now, t2)
          /\ now' = t2
    /\ UNCHANGED <<auxVars, engineVars, pipeVars>>

\* process_tick with an empty tick: the closure check alone.
SamplerEmptyTick ==
    /\ CallProcessTick(None, now, now)
    /\ UNCHANGED <<auxVars, engineVars, pipeVars, now, nticks>>

\* A second passes without a tick.
SamplerTimePasses ==
    /\ now < SamplerStart + MaxSampClock
    /\ now' = now + 1
    /\ tick_call' = None
    /\ UNCHANGED <<auxVars, engineVars, pipeVars, active_bars, emitted, dropped, admitted, nticks>>

(***************************************************************************)
(* Analytics library (app/analytics): pure functions of their arguments.   *)
(*                                                                         *)
(* A float is a record: a finite number, NaN, or an infinity.  The result  *)
(* of a call is either a returned value or a raised exception.             *)
(***************************************************************************)
Fin(v) == [kind |-> "num", v |-> v]
NaN == [kind |-> "nan"]
PosInf == [kind |-> "inf", sign |-> 1]
NegInf == [kind |-> "inf", sign |-> -1]

\* np.isfinite
IsFinite(f) == f.kind = "num"

Returns(v) == [returns |-> v]
Raises(e) == [raises |-> e]

\* The longest series handed to compute_zscore, the largest window, the longest
\* series handed to compute_hedge_ratio and compute_spread, and the largest
\* number of finite observations handed to run_adf_test.
MaxSeries == 4
MaxWindow == 3
MaxPair == 2
MaxObs == 11

\* All sequences over V of length up to n.
SeqsUpTo(V, n) == UNION { [1..k -> V] : k \in 0..n }

\* ---- zscore.py ----
\* A quotient num / sqrt(den2) of the rolling z-score.
ZNum(num, den2) == [kind |-> "num", num |-> num, den2 |-> den2]

\* (mutant) a rolling window with min_periods = 1
RollingWindow_minPeriods1(series, i, window) ==
    Some(SubSeq(series, IF i >= window THEN i - window + 1 ELSE 1, i))

\* line 36: s.rolling(window=window) at position i: the last `window` values,
\* none before the window is full (min_periods defaults to the window)
RollingWindow(series, i, window) ==
    IF i < window THEN None ELSE Some(SubSeq(series, i - window + 1, i))

\* lines 43-50: (s - r_mean) / r_std for a window of W = scale + 1 values with
\* dev = W*(s - mean) and var = W*sum(v^2) - sum(v)^2, so that the sample
\* variance is var / (W*(W-1)): 0/0 is NaN, x/0 is an infinity, and line 50
\* replaces the infinities by NaN
FloatQuotient(dev, var, scale) ==
    LET q == IF var = 0
             THEN IF dev = 0 THEN NaN ELSE IF dev > 0 THEN PosInf ELSE NegInf
             ELSE ZNum(dev * scale, var * scale * (scale + 1))
    IN IF q.kind = "inf" THEN NaN ELSE q

\* lines 36-50 at position i of the series
ZScoreAt(series, i, window) ==
    LET w == RollingWindow(series, i, window) IN
    IF w = None THEN NaN
    ELSE LET W == Len(Val(w))
             dev == W * series[i] - SumSeq(Val(w))
             var == W * SumProd(Val(w), Val(w)) - SumSeq(Val(w)) * SumSeq(Val(w))
         IN IF W < 2 THEN NaN ELSE FloatQuotient(dev, var, W - 1)

\* lines 11-52: compute_zscore(series, window)
compute_zscore(series, window) ==
    IF window <= 1 THEN Raises("ValueError")
    ELSE IF Len(series) = 0 THEN Returns(<<>>)
    ELSE Returns([i \in 1..Len(series) |-> ZScoreAt(series, i, window)])

\* Arguments of compute_zscore: series of prices 1 and 2, windows from 0.
ZSeries == SeqsUpTo({1, 2}, MaxSeries)
ZWindows == 0..MaxWindow

\* ---- adf_test.py ----
MinObservations == 10
\* line 52, in hundredths
Significance == 5

\* lines 37-41 and 62-66
NeutralResult == [adf_statistic |-> NaN, p_value |-> NaN, is_stationary |-> FALSE]

\* What statsmodels' adfuller does with a series is not in this repository: it
\* raises, or returns a statistic and a p-value (in hundredths), which can be NaN.
AdfullerOutcomes ==
    { Raises("LinAlgError"), Raises("ValueError") }
        \cup { Returns([stat |-> Fin(-3), p |-> Fin(p)]) : p \in {0, 4, 5, 6, 100} }
        \cup { Returns([stat |-> NaN, p |-> NaN]) }

\* lines 30-31: dropna() and the np.isfinite mask
Clean(series) == SelectSeq(series, IsFinite)

\* (mutant) the length check on the series as given
Observations_raw(series) == Len(series)

\* line 35: len(s) of the cleaned series
Observations(series) == Len(Clean(series))

\* line 52: p_val < 0.05, False for NaN
BelowSignificance(p) == p.kind = "num" /\ p.v < Significance

\* lines 12-66: run_adf_test(series), adfuller giving outcome
run_adf_test(series, outcome) ==
    IF Observations(series) < MinObservations THEN Returns(NeutralResult)
    ELSE IF "raises" \in DOMAIN outcome THEN Returns(NeutralResult)
    ELSE Returns([adf_statistic |-> outcome.returns.stat,
                  p_value |-> outcome.returns.p,
                  is_stationary |-> BelowSignificance(outcome.returns.p)])

\* Arguments of run_adf_test: up to MaxObs finite values, with NaN and infinite
\* values before and after them.
Junk == { <<>>, <<NaN>>, <<PosInf>>, <<NaN, NegInf>> }
AdfSeries ==
    { j1 \o [i \in 1..k |-> Fin(i)] \o j2 : j1 \in Junk, j2 \in Junk, k \in 0..MaxObs }

\* ---- hedge_ratio.py, spread.py ----
\* The values of the series of a pair.
AllFinite(arr) == \A i \in 1..Len(arr) : IsFinite(arr[i])
Values(arr) == [i \in 1..Len(arr) |-> arr[i].v]

\* line 59: the slope of np.polyfit(x, y, 1) as a quotient num / den; for a
\* constant x the system has rank 1 and polyfit returns its least-squares
\* solution of minimum norm in the scaled coefficients, slope mean(y) / (2*x)
Slope(x, y) ==
    LET n == Len(x)
        den == n * SumProd(x, x) - SumSeq(x) * SumSeq(x)
    IN IF den # 0 THEN [num |-> n * SumProd(x, y) - SumSeq(x) * SumSeq(y), den |-> den]
       ELSE [num |-> SumSeq(y), den |-> 2 * n * x[1]]

\* lines 11-62: compute_hedge_ratio(x, y)
compute_hedge_ratio(x, y) ==
    IF Len(x) # Len(y) THEN Raises("ValueError")
    ELSE IF Len(x) < 2 THEN Returns(None)
    ELSE IF ~AllFinite(x) \/ ~AllFinite(y) THEN Returns(None)
    ELSE Returns(Some(Slope(Values(x), Values(y))))

\* line 39 for one position: y - hedge_ratio * x in floats, hedge_ratio > 0
SpreadAt(xv, yv, h) ==
    IF xv.kind = "nan" \/ yv.kind = "nan" THEN NaN
    ELSE IF xv.kind = "num" /\ yv.kind = "num" THEN Fin(yv.v - h * xv.v)
    ELSE IF xv.kind = "num" THEN yv
    ELSE IF yv.kind = "num" THEN [kind |-> "inf", sign |-> -xv.sign]
    ELSE IF yv.sign = xv.sign THEN NaN
    ELSE yv

\* lines 11-41: compute_spread(x, y, hedge_ratio)
compute_spread(x, y, hedge_ratio) ==
    IF hedge_ratio = None THEN Raises("ValueError")
    ELSE IF Len(x) # Len(y) THEN Raises("ValueError")
    ELSE Returns([i \in 1..Len(x) |-> SpreadAt(x[i], y[i], Val(hedge_ratio))])

\* Arguments of the two functions: series of up to MaxPair prices, NaN and
\* infinite values included; a hedge ratio of 2 or None.
PairSeries == SeqsUpTo({Fin(1), Fin(2), NaN, PosInf}, MaxPair)
HedgeRatios == {None, Some(2)}

\* ---- the calls ----
\* A caller calls a function once and keeps what it gave.
LibCall(rec) ==
    /\ lib_call' = Some(rec)
    /\ UNCHANGED <<engineVars, now, pipeVars, samplerVars, loop, http>>

CallComputeZscore ==
    /\ lib_call = None
    /\ \E series \in ZSeries, window \in ZWindows :
           LibCall([fn |-> "compute_zscore", series |-> series, window |-> window,
                    result |-> compute_zscore(series, window)])

CallRunAdfTest ==
    /\ lib_call = None
    /\ \E series \in AdfSeries, outcome \in AdfullerOutcomes :
           LET called == Observations(series) >= MinObservations IN
           LibCall([fn |-> "run_adf_test", series |-> series,
                    adfuller |-> IF called THEN Some(outcome) ELSE None,
                    result |-> run_adf_test(series, outcome)])

CallComputeHedgeRatio ==
    /\ lib_call = None
    /\ \E x \in PairSeries, y \in PairSeries :
           LibCall([fn |-> "compute_hedge_ratio", x |-> x, y |-> y,
                    result |-> compute_hedge_ratio(x, y)])

CallComputeSpread ==
    /\ lib_call = None
    /\ \E x \in PairSeries, y \in PairSeries, h \in HedgeRatios :
           LibCall([fn |-> "compute_spread", x |-> x, y |-> y, hedge_ratio |-> h,
                    result |-> compute_spread(x, y, h)])

(***************************************************************************)
(* The event loop of the application (main.py): the ingestion task        *)
(* start_binance_ws and the request handlers of routes.py are coroutines   *)
(* of one loop in one thread.  process_message is followed statement by    *)
(* statement; loop.pc is where the ingestion task stands:                  *)
(*   "recv"      suspended in await websocket.recv()        (line 36)      *)
(*   "prices"    the price is appended                      (lines 62-64)  *)
(*   "spread"    the spread is appended                     (line 87)      *)
(*   "appended"  the snapshot is appended to history_data   (line 130)     *)
(***************************************************************************)
Loop(pc, data, before, seen) == [pc |-> pc, data |-> data, before |-> before, seen |-> seen]

\* The orchestrator's state as one value, and the step that makes it st.
PipeNow ==
    PipeState(btc_prices, eth_prices, spread_history, history_data, latest_alert, cycle, rearmed)
PipeBecomes(st) ==
    /\ btc_prices' = st.btc_prices
    /\ eth_prices' = st.eth_prices
    /\ spread_history' = st.spread_history
    /\ history_data' = st.history_data
    /\ latest_alert' = st.latest_alert
    /\ cycle' = st.cycle
    /\ rearmed' = st.rearmed

\* process_message(data) started in state before, when it has returned.
Returned(before, data) ==
    process_message(before, data, now, ws_CURRENT_CONFIG, CURRENT_CONFIG.zscore_exit_threshold)

\* The call returns right after the statement that leaves the task at pc.
ReturnsAt(before, data, pc) ==
    LET stage == Val(Returned(before, data).cycle).stage IN
    \/ pc = "recv" /\ stage \in {"raised", "unknown"}
    \/ pc = "prices" /\ stage = "buffered"
    \/ pc = "spread" /\ stage = "spread"

\* The state inside the call: binance_ws.py lines 62-64 done, line 87 done, line
\* 130 done.
AfterPrices(before, data) ==
    [before EXCEPT !.btc_prices = Returned(before, data).btc_prices,
                   !.eth_prices = Returned(before, data).eth_prices,
                   !.cycle = None]
AfterSpread(before, data) ==
    [AfterPrices(before, data) EXCEPT !.spread_history = Returned(before, data).spread_history]
AfterAppend(before, data) ==
    LET history == Returned(before, data).history_data IN
    [AfterSpread(before, data) EXCEPT
        !.history_data = Append(before.history_data, history[Len(history)])]

\* (mutant) request handlers that run at any time, as threads would
HandlerMayRun_anytime == TRUE

\* binance_ws.py lines 31-38: the ingestion task gives the loop to another
\* coroutine only in await websocket.recv(); process_message, update_analytics
\* and update_alerts are plain functions without await
HandlerMayRun == loop.pc = "recv"

\* lines 36-38 and 48-64: a message arrives, process_message parses it and appends
\* the price
LoopReceive ==
    /\ feed = <<>>
    /\ loop.pc = "recv"
    /\ nmsgs < MaxMsgs
    /\ \E data \in Messages :
          IF ReturnsAt(PipeNow, data, "recv") \/ ReturnsAt(PipeNow, data, "prices")
          THEN /\ PipeBecomes(Returned(PipeNow, data))
               /\ loop' = Loop("recv", None, None, loop.seen)
          ELSE /\ PipeBecomes(AfterPrices(PipeNow, data))
               /\ loop' = Loop("prices", Some(data), Some(PipeNow), loop.seen)
    /\ nmsgs' = nmsgs + 1
    /\ UNCHANGED <<engineVars, samplerVars, now, CURRENT_CONFIG, ws_CURRENT_CONFIG, feed, lib_call, http>>

\* lines 69-92: update_analytics appends the spread
LoopSpread ==
    /\ loop.pc = "prices"
    /\ IF ReturnsAt(Val(loop.before), Val(loop.data), "spread")
       THEN /\ PipeBecomes(Returned(Val(loop.before), Val(loop.data)))
            /\ loop' = Loop("recv", None, None, loop.seen)
       ELSE /\ PipeBecomes(AfterSpread(Val(loop.before), Val(loop.data)))
            /\ loop' = [loop EXCEPT !.pc = "spread"]
    /\ UNCHANGED <<engineVars, samplerVars, now, CURRENT_CONFIG, ws_CURRENT_CONFIG, nmsgs, feed, lib_call, http>>

\* lines 94-130: the z-score and the correlation are computed and the snapshot
\* is appended to history_data
LoopAppend ==
    /\ loop.pc = "spread"
    /\ PipeBecomes(AfterAppend(Val(loop.before), Val(loop.data)))
    /\ loop' = [loop EXCEPT !.pc = "appended"]
    /\ UNCHANGED <<engineVars, samplerVars, now, CURRENT_CONFIG, ws_CURRENT_CONFIG, nmsgs, feed, lib_call, http>>

\* lines 131-135: the oldest snapshot is removed, update_alerts runs and
\* process_message returns
LoopEvict ==
    /\ loop.pc = "appended"
    /\ PipeBecomes(Returned(Val(loop.before), Val(loop.data)))
    /\ loop' = Loop("recv", None, None, loop.seen)
    /\ UNCHANGED <<engineVars, samplerVars, now, CURRENT_CONFIG, ws_CURRENT_CONFIG, nmsgs, feed, lib_call, http>>

\* routes.py lines 167-171 and 77-110: GET /analytics/latest reads the newest
\* snapshot and the length of history_data
get_analytics_latest ==
    /\ feed = <<>>
    /\ HandlerMayRun
    /\ loop' = [loop EXCEPT !.seen = Some([pc |-> loop.pc,
                                           points_collected |-> Len(history_data),
                                           prices |-> Len(btc_prices) + Len(eth_prices),
                                           spreads |-> Len(spread_history)])]
    /\ UNCHANGED <<engineVars, samplerVars, now, pipeVars, lib_call, http>>

(***************************************************************************)
(* The HTTP interface (routes.py) with request bodies as floats.  A body   *)
(* of POST /config is a TradingConfig: three floats, which the JSON parser *)
(* and the float fields also take as NaN and as infinities.  Thresholds    *)
(* are in tenths.                                                          *)
(***************************************************************************)
\* Python's <= on floats: False when either side is NaN
FloatLe(a, b) ==
    IF a.kind = "nan" \/ b.kind = "nan" THEN FALSE
    ELSE IF a.kind = "num" /\ b.kind = "num" THEN a.v <= b.v
    ELSE IF a.kind = "inf" THEN a.sign = -1 \/ (b.kind = "inf" /\ b.sign = 1)
    ELSE b.sign = 1

\* TradingConfig(), lines 35-41, as floats
FloatConfig(c) ==
    [zscore_entry_threshold |-> Fin(c.zscore_entry_threshold),
     zscore_exit_threshold |-> Fin(c.zscore_exit_threshold),
     min_correlation |-> Fin(c.min_correlation)]

\* line 212: config.zscore_entry_threshold <= config.zscore_exit_threshold
EntryNotAboveExit(config) ==
    FloatLe(config.zscore_entry_threshold, config.zscore_exit_threshold)

\* line 214: not (0 <= config.min_correlation <= 1)
CorrelationOutOfRange(config) ==
    ~(FloatLe(Fin(0), config.min_correlation) /\ FloatLe(config.min_correlation, Fin(10)))

\* Request bodies of POST /config: every combination of usual, boundary,
\* out-of-range, NaN and infinite values of the three fields.
FloatBodies ==
    [zscore_entry_threshold : {Fin(20), Fin(5), NaN, PosInf},
     zscore_exit_threshold : {Fin(5), Fin(20), NaN, NegInf},
     min_correlation : {Fin(7), Fin(0), Fin(10), Fin(11), Fin(-1), NaN}]

\* lines 209-219: POST /config with the body config
post_config ==
    \E config \in FloatBodies :
        LET rejected == EntryNotAboveExit(config) \/ CorrelationOutOfRange(config) IN
        /\ CURRENT_CONFIG' = IF rejected THEN CURRENT_CONFIG ELSE config
        /\ http' = Some([route |-> "POST /config", request |-> config,
                         status |-> IF rejected THEN 400 ELSE 200,
                         body |-> IF rejected THEN None ELSE Some(config)])
        /\ cycle' = None
        /\ UNCHANGED <<engineVars, samplerVars, now, btc_prices, eth_prices, spread_history,
                       history_data, latest_alert, ws_CURRENT_CONFIG, rearmed, nmsgs, feed,
                       lib_call, loop>>

\* lines 204-207: GET /config
get_config ==
    /\ http' = Some([route |-> "GET /config", request |-> None, status |-> 200,
                     body |-> Some(CURRENT_CONFIG)])
    /\ cycle' = None
    /\ UNCHANGED <<engineVars, samplerVars, now, btc_prices, eth_prices, spread_history,
                   history_data, latest_alert, CURRENT_CONFIG, ws_CURRENT_CONFIG, rearmed,
                   nmsgs, feed, lib_call, loop>>

\* ---- GET /analytics/history ----
\* routes.py line 186: the seconds after which the handler adds a point
RefreshInterval == 60
\* the waits of a minute or so in one run
MaxMinutes == 1

\* (mutant) lines 191-192 without the pop
ShiftHistory_noPop(history, new_point) == Append(history, new_point)

\* lines 191-192: history_data.append(new_point); history_data.pop(0)
ShiftHistory(history, new_point) == Tail(Append(history, new_point))

\* lines 187-190: a copy of the newest snapshot with the time of the request, a
\* random z-score and the spread moved by a random step, not below zero (the
\* lowest z-score with a step down, or the highest with a step up)
RefreshedPoints(last, t) ==
    { [last EXCEPT !.timestamp = t, !.zscore = r.z,
                   !.spread = IF last.spread + r.d < 0 THEN 0 ELSE last.spread + r.d] :
        r \in { [z |-> MockZ[1], d |-> -1], [z |-> MockZ[3], d |-> 1] } }

\* lines 173-194: GET /analytics/history
get_analytics_history ==
    /\ feed = <<>>
    /\ LET last == history_data[Len(history_data)] IN
       IF now - last.timestamp > RefreshInterval
       THEN \E new_point \in RefreshedPoints(last, now) :
               /\ history_data' = ShiftHistory(history_data, new_point)
               /\ http' = Some([route |-> "GET /analytics/history", status |-> 200,
                                body |-> ShiftHistory(history_data, new_point)])
       ELSE /\ history_data' = history_data
            /\ http' = Some([route |-> "GET /analytics/history", status |-> 200,
                             body |-> history_data])
    /\ cycle' = None
    /\ UNCHANGED <<engineVars, samplerVars, now, btc_prices, eth_prices, spread_history,
                   latest_alert, CURRENT_CONFIG, ws_CURRENT_CONFIG, rearmed, nmsgs, feed,
                   lib_call, loop>>

\* A minute passes, or a second more.
MinutePasses ==
    /\ feed = <<>>
    /\ now - StartTime < RefreshInterval * MaxMinutes
    /\ \E d \in {RefreshInterval, RefreshInterval + 1} : now' = now + d
    /\ http' = None
    /\ UNCHANGED <<engineVars, pipeVars, samplerVars, lib_call, loop>>

\* ---- GET /analytics/stats and GET /analytics/stats/csv ----
\* reversed(history_data)
Reversed(history) == [i \in 1..Len(history) |-> history[Len(history) + 1 - i]]

\* lines 236-242: alert_status of one snapshot
AlertStatus(z, thr) ==
    IF GtTenths(z, thr) THEN "SHORT"
    ELSE IF LtTenths(z, -thr) THEN "LONG"
    ELSE "NONE"

\* lines 231-251: the row of one snapshot
StatsRow(point, cfg) ==
    [timestamp |-> point.timestamp, zscore |-> point.zscore, spread |-> point.spread,
     correlation |-> point.correlation,
     is_stationary |-> AbsLtTenths(point.zscore, cfg.zscore_entry_threshold),
     alert |-> AlertStatus(point.zscore, cfg.zscore_entry_threshold)]

\* lines 226-253: the rows of the response, newest snapshot first
StatsRows(history, cfg) ==
    [i \in 1..Len(history) |-> StatsRow(Reversed(history)[i], cfg)]

\* lines 221-253: GET /analytics/stats
get_analytics_stats ==
    /\ feed = <<>>
    /\ http' = Some([route |-> "GET /analytics/stats", status |-> 200,
                     body |-> [rows |-> StatsRows(history_data, CURRENT_CONFIG)]])
    /\ cycle' = None
    /\ UNCHANGED <<engineVars, samplerVars, now, btc_prices, eth_prices, spread_history,
                   history_data, latest_alert, CURRENT_CONFIG, ws_CURRENT_CONFIG, rearmed,
                   nmsgs, feed, lib_call, loop>>

\* line 269: the header row
CsvHeader == <<"timestamp", "zscore", "spread", "correlation", "is_stationary", "alert">>

\* lines 264-291: the rows written to the buffer.  The header is written first;
\* the loop body then reads the name runtime_config (line 274), which no
\* statement of routes.py binds and which is no builtin, so the first snapshot
\* raises NameError and only an empty history gets through the loop.
WrittenCsv(history) ==
    IF Len(history) = 0 THEN Returns(<<CsvHeader>>) ELSE Raises("NameError")

\* lines 255-297: GET /analytics/stats/csv; an exception that leaves the handler
\* is answered with status 500
get_analytics_stats_csv ==
    /\ feed = <<>>
    /\ LET written == WrittenCsv(history_data) IN
       http' = IF "raises" \in DOMAIN written
               THEN Some([route |-> "GET /analytics/stats/csv", status |-> 500, body |-> None])
               ELSE Some([route |-> "GET /analytics/stats/csv", status |-> 200,
                          body |-> written.returns])
    /\ cycle' = None
    /\ UNCHANGED <<engineVars, samplerVars, now, btc_prices, eth_prices, spread_history,
                   history_data, latest_alert, CURRENT_CONFIG, ws_CURRENT_CONFIG, rearmed,
                   nmsgs, feed, lib_call, loop>>

(***************************************************************************)
(* Specifications                                                          *)
(***************************************************************************)
\* The components a specification does not run: the engine as constructed, the
\* orchestrator's buffers and history empty.
LibIdle == lib_call = None
LoopIdle == loop = [pc |-> "recv", data |-> None, before |-> None, seen |-> None]
HttpIdle == http = None
AuxIdle == LibIdle /\ LoopIdle /\ HttpIdle

EngineIdle == EngineInit(TestParams)
PipeIdle ==
    /\ PipeIs(PipeState(<<>>, <<>>, <<>>, <<>>, MockAlert, None, TRUE))
    /\ CURRENT_CONFIG = DefaultConfig
    /\ ws_CURRENT_CONFIG = DefaultConfig
    /\ nmsgs = 0
    /\ feed = <<>>

EngineNext == Construct \/ Evaluate

ScriptNext == TestConstruct \/ TestEvaluate

PipeNext == ReplayMessage \/ ProcessMessage \/ update_config \/ get_latest_alert_endpoint \/ ClockTick

SamplerNext == SamplerTick \/ SamplerEmptyTick \/ SamplerTimePasses

\* AlertEngine under any caller.
InitEngine ==
    /\ \E p \in EngineParams : EngineInit(p)
    /\ now = StartTime /\ PipeIdle /\ SamplerInit /\ AuxIdle
SpecEngine == InitEngine /\ [][EngineNext]_vars

\* AlertEngine under the calls of tests/test_alerts.py.
InitScript == EngineInit(TestParams) /\ now = StartTime /\ PipeIdle /\ SamplerInit /\ AuxIdle
SpecScript == InitScript /\ [][ScriptNext]_vars

\* The FastAPI application: the ingestion task and the request handlers.
InitPipeline == EngineIdle /\ PipeInit /\ SamplerInit /\ AuxIdle
SpecPipeline == InitPipeline /\ [][PipeNext]_vars

\* The ingestion task alone (start_binance_ws, no request arrives), also after a
\* stream that fills the windows.
IngestNext == ReplayMessage \/ ProcessMessage
InitIngest ==
    /\ EngineIdle /\ SamplerInit /\ AuxIdle
    /\ now = StartTime
    /\ PipeIs(ColdState)
    /\ feed \in Feeds \cup {WarmFull}
    /\ CURRENT_CONFIG = DefaultConfig
    /\ ws_CURRENT_CONFIG = DefaultConfig
    /\ nmsgs = 0
SpecIngest == InitIngest /\ [][IngestNext]_vars

\* The sampler process: BinanceWebsocketClient feeding its Sampler.
InitSampler == EngineIdle /\ PipeIdle /\ now = SamplerStart /\ SamplerInit /\ AuxIdle
SpecSampler == InitSampler /\ [][SamplerNext]_vars

\* The application's event loop: the ingestion task statement by statement and
\* a request handler that reads.
LoopNext ==
    ReplayMessage \/ LoopReceive \/ LoopSpread \/ LoopAppend \/ LoopEvict \/ get_analytics_latest
InitLoop ==
    /\ EngineIdle /\ SamplerInit /\ AuxIdle
    /\ now = StartTime
    /\ PipeIs(ColdState)
    /\ feed \in {<<>>, WarmShort}
    /\ CURRENT_CONFIG = DefaultConfig
    /\ ws_CURRENT_CONFIG = DefaultConfig
    /\ nmsgs = 0
SpecLoop == InitLoop /\ [][LoopNext]_vars

\* The configuration endpoints under any request bodies.
ConfigNext == post_config \/ get_config
InitConfig ==
    /\ EngineIdle /\ SamplerInit /\ AuxIdle
    /\ now = StartTime
    /\ PipeIs(ColdState)
    /\ CURRENT_CONFIG = FloatConfig(DefaultConfig)
    /\ ws_CURRENT_CONFIG = DefaultConfig
    /\ nmsgs = 0
    /\ feed = <<>>
SpecConfig == InitConfig /\ [][ConfigNext]_vars

\* The ingestion task and GET /analytics/history, both of which write the
\* snapshot history.
HistoryNext == ReplayMessage \/ ProcessMessage \/ get_analytics_history \/ MinutePasses
InitHistory ==
    /\ EngineIdle /\ SamplerInit /\ AuxIdle
    /\ now = StartTime
    /\ PipeIs(ColdState)
    /\ feed \in {<<>>, WarmShort}
    /\ CURRENT_CONFIG = DefaultConfig
    /\ ws_CURRENT_CONFIG = DefaultConfig
    /\ nmsgs = 0
SpecHistory == InitHistory /\ [][HistoryNext]_vars

\* The ingestion task, POST /config and the two statistics handlers.
StatsNext ==
    ReplayMessage \/ ProcessMessage \/ update_config \/ get_analytics_stats
        \/ get_analytics_stats_csv
InitStats ==
    /\ EngineIdle /\ SamplerInit /\ AuxIdle
    /\ now = StartTime
    /\ PipeIs(ColdState)
    /\ feed \in {<<>>, WarmShort}
    /\ CURRENT_CONFIG = DefaultConfig
    /\ ws_CURRENT_CONFIG = DefaultConfig
    /\ nmsgs = 0
SpecStats == InitStats /\ [][StatsNext]_vars

\* The analytics library: one call of one function with any arguments.
LibNext == CallComputeZscore \/ CallRunAdfTest \/ CallComputeHedgeRatio \/ CallComputeSpread
InitLib == EngineIdle /\ PipeIdle /\ now = StartTime /\ SamplerInit /\ AuxIdle
SpecLib == InitLib /\ [][LibNext]_vars

(***************************************************************************)
(* Properties of AlertEngine                                               *)
(***************************************************************************)
\* What a caller reads off a recorded call: the alert's signal, "none" without alert.
SignalOf(o) == IF o.alert = None THEN "none" ELSE Val(o.alert).signal

\* The entry filters as the specification words them, on a recorded call.
FiltersPass(k) ==
    /\ k.rolling_correlation # None
    /\ Val(k.rolling_correlation) >= min_correlation
    /\ k.adf_result = Some([is_stationary |-> TRUE])

AllDefined(k) == k.z_score # None /\ k.rolling_correlation # None /\ k.adf_result # None

\* C1: between any two calls of one engine that return an alert there is a call
\* after which current_state is NONE, whatever the arguments of the calls are.
C1_NoTwoAlertsWithoutReset ==
    \A i, j \in 1..Len(outcomes) :
        (i < j /\ outcomes[i].alert # None /\ outcomes[j].alert # None)
            => \E m \in (i+1)..(j-1) : outcomes[m].state = "NONE"

\* C1 witness: an engine that alerted, was reset and alerted again.
C1_Witness ==
    /\ Len(outcomes) = 3
    /\ outcomes[1].alert # None
    /\ outcomes[2].state = "NONE"
    /\ outcomes[3].alert # None

\* C2: from NONE with correlation >= C and is_stationary = true: z >= T gives state
\* SHORT and a SHORT alert, z <= -T gives state LONG and a LONG alert (both
\* inclusive), -T < z < T leaves NONE and returns nothing; an alert is returned only
\* by these two transitions and its signal is the new current_state.
C2_EntryFromNone ==
    call # None =>
        LET k == Val(call) IN
        /\ (k.pre = "NONE" /\ FiltersPass(k) /\ k.z_score # None) =>
              /\ Val(k.z_score) >= threshold =>
                    current_state = "SHORT" /\ k.ret # None /\ Val(k.ret).signal = "SHORT"
              /\ Val(k.z_score) <= -threshold =>
                    current_state = "LONG" /\ k.ret # None /\ Val(k.ret).signal = "LONG"
              /\ (-threshold < Val(k.z_score) /\ Val(k.z_score) < threshold) =>
                    current_state = "NONE" /\ k.ret = None
        /\ k.ret # None =>
              /\ k.pre = "NONE" /\ FiltersPass(k) /\ k.z_score # None
              /\ Val(k.z_score) >= threshold \/ Val(k.z_score) <= -threshold
              /\ current_state \in {"LONG", "SHORT"}
              /\ Val(k.ret).signal = current_state

\* C2 witness: a LONG alert returned for z exactly -T and correlation exactly C.
C2_Witness ==
    /\ call # None
    /\ Val(call).pre = "NONE"
    /\ Val(call).z_score = Some(-threshold)
    /\ Val(call).rolling_correlation = Some(min_correlation)
    /\ Val(call).ret # None
    /\ current_state = "LONG"

\* C3: in state LONG or SHORT with defined inputs, |z| < R (strict) gives NONE and
\* no alert, anything else leaves the state and returns no alert; so the state
\* never moves from LONG to SHORT or back directly.
C3_ResetOrHold ==
    call # None =>
        LET k == Val(call) IN
        /\ (k.pre \in {"LONG", "SHORT"} /\ AllDefined(k)) =>
              /\ k.ret = None
              /\ current_state = IF Abs(Val(k.z_score)) < reset_threshold THEN "NONE" ELSE k.pre
        /\ k.pre \in {"LONG", "SHORT"} => current_state \in {k.pre, "NONE"}

\* C3 witness: a held SHORT is kept at |z| = R exactly.
C3_Witness ==
    /\ call # None
    /\ Val(call).pre = "SHORT"
    /\ AllDefined(Val(call))
    /\ Abs(Val(Val(call).z_score)) = reset_threshold
    /\ current_state = "SHORT"

\* C4: a call with z_score, rolling_correlation or adf_result undefined returns no
\* alert and leaves current_state as it was.
C4_UndefinedInputIsNoOp ==
    call # None =>
        LET k == Val(call) IN
        ~AllDefined(k) => k.ret = None /\ current_state = k.pre

\* C4 witness: a held LONG survives a call without z-score whose other inputs
\* would reset or trigger.
C4_Witness ==
    /\ call # None
    /\ Val(call).pre = "LONG"
    /\ Val(call).z_score = None
    /\ Val(call).rolling_correlation # None
    /\ Val(call).adf_result = Some([is_stationary |-> TRUE])
    /\ current_state = "LONG"

\* C5: a call whose correlation is below min_correlation, or whose stationarity
\* result has is_stationary false or no such field, returns no alert and does
\* not enter LONG or SHORT, for every z-score and every state.
C5_FiltersBlockEntry ==
    call # None =>
        LET k == Val(call) IN
        ( \/ (k.rolling_correlation # None /\ Val(k.rolling_correlation) < min_correlation)
          \/ (k.adf_result # None /\ k.adf_result # Some([is_stationary |-> TRUE])) )
            => /\ k.ret = None
               /\ current_state \in {"LONG", "SHORT"} => current_state = k.pre

\* C5 witness: from NONE, z beyond the entry threshold and a good correlation, but
\* a stationarity result without the is_stationary field: nothing happens.
C5_Witness ==
    /\ call # None
    /\ Val(call).pre = "NONE"
    /\ Val(call).z_score # None
    /\ Val(Val(call).z_score) >= threshold
    /\ Val(call).rolling_correlation = Some(9)
    /\ Val(call).adf_result = Some([p_value |-> 1])
    /\ Val(call).ret = None
    /\ current_state = "NONE"

\* The state before the i-th recorded call of the engine.
PreOf(i) == IF i = 1 THEN "NONE" ELSE outcomes[i-1].state

\* The i-th recorded call had passing filters.
FedPasses(i) ==
    /\ Val(fed[i].rolling_correlation) >= min_correlation
    /\ fed[i].adf_result = Some([is_stationary |-> TRUE])

\* The arguments and the expected alerts of the instance of C6.
InstanceFed ==
    [i \in 1..4 |-> [z_score |-> Some(<<25, 26, 1, -25>>[i]), rolling_correlation |-> Some(9),
                     adf_result |-> Some([is_stationary |-> TRUE])]]
InstanceSignals == <<"SHORT", "none", "none", "LONG">>

\* C6: the engine re-arms after a reset, for either side: an alert is followed by
\* silence while |z| >= R, the first |z| < R resets silently to NONE, and the
\* evaluation after a reset with passing filters and z <= -T (z >= T) emits LONG
\* (SHORT) whatever side was held before; z = [2.5, 2.6, 0.1, -2.5] at correlation
\* 0.9, stationary, T = 2.0, R = 0.5 gives [SHORT, none, none, LONG].
C6_ReArmAfterReset ==
    /\ \A i \in 1..Len(fed) :
          /\ (PreOf(i) # "NONE" /\ Abs(Val(fed[i].z_score)) >= reset_threshold) =>
                SignalOf(outcomes[i]) = "none" /\ outcomes[i].state = PreOf(i)
          /\ (PreOf(i) # "NONE" /\ Abs(Val(fed[i].z_score)) < reset_threshold) =>
                SignalOf(outcomes[i]) = "none" /\ outcomes[i].state = "NONE"
          /\ (i > 2 /\ PreOf(i-1) # "NONE" /\ PreOf(i) = "NONE" /\ FedPasses(i)) =>
                /\ Val(fed[i].z_score) >= threshold =>
                      SignalOf(outcomes[i]) = "SHORT" /\ outcomes[i].state = "SHORT"
                /\ Val(fed[i].z_score) <= -threshold =>
                      SignalOf(outcomes[i]) = "LONG" /\ outcomes[i].state = "LONG"
    /\ \A n \in 1..Len(fed) :
          (n <= 4 /\ \A i \in 1..n : fed[i] = InstanceFed[i])
              => \A i \in 1..n : SignalOf(outcomes[i]) = InstanceSignals[i]

\* C6 witness: the instance ran to its end, a LONG alert after a held SHORT.
C6_Witness ==
    /\ Len(fed) = 4
    /\ \A i \in 1..4 : fed[i] = InstanceFed[i]
    /\ SignalOf(outcomes[1]) = "SHORT"
    /\ outcomes[3].state = "NONE"
    /\ SignalOf(outcomes[4]) = "LONG"

(***************************************************************************)
(* Properties of the update orchestrator                                   *)
(***************************************************************************)
\* The step is a process_message call.
MessageStep == feed' # feed \/ nmsgs' # nmsgs

\* C7: update_alerts publishes a new alert to latest_alert only after the z-score
\* has been in the neutral zone (|z| < exit threshold) since the alert it
\* published before; a sustained excursion publishes one alert.
C7_PublishOnlyAfterNeutral ==
    [][ (MessageStep /\ cycle' # None /\ Val(cycle').published) => rearmed ]_vars

\* C8: an alert is published only in a cycle whose correlation is defined and
\* >= min_correlation and whose stationarity flag is true.
C8_PublishedPassedFilters ==
    (cycle # None /\ Val(cycle).published) =>
        /\ Val(cycle).correlation # None
        /\ ~LtTenths(Val(Val(cycle).correlation), CURRENT_CONFIG.min_correlation)
        /\ Val(cycle).is_stationary

\* C8, its particular case: no alert is published while the correlation is undefined.
C8_NoAlertWithoutCorrelation ==
    (cycle # None /\ Val(cycle).published) => Val(cycle).correlation # None

\* C9: a cycle of the ingestion path that evaluates stationarity and alerts reads
\* the entry threshold and the minimum correlation of the configuration the
\* last accepted POST /config installed.
C9_ConfigReadFresh ==
    (cycle # None /\ Val(cycle).stage \in {"weak", "alerts"}) =>
        /\ Val(cycle).threshold = CURRENT_CONFIG.zscore_entry_threshold
        /\ Val(cycle).min_corr = CURRENT_CONFIG.min_correlation

\* C9, as a reader of latest_alert sees it: a published SHORT alert has a z-score
\* above the entry threshold in force.
C9_PublishedAboveThresholdInForce ==
    (cycle # None /\ Val(cycle).published /\ Val(cycle).alert_signal = "SHORT") =>
        GtTenths(Val(cycle).zscore, CURRENT_CONFIG.zscore_entry_threshold)

\* window' is window after one append to a deque of capacity WINDOW_SIZE: the
\* oldest value is gone if the window was full, the rest keeps its order.
Pushed(window, after) ==
    /\ after # <<>>
    /\ after = Append(IF Len(window) >= WINDOW_SIZE THEN Tail(window) ELSE window,
                      after[Len(after)])

\* The stages of a process_message call that appended a price, and a spread.
PriceStages == {"buffered", "spread", "weak", "alerts"}
SpreadStages == {"spread", "weak", "alerts"}

\* C17: the price windows and the spread window never hold more than WINDOW_SIZE
\* values, and every process_message call that appends to one of them adds the
\* value at the end, evicting exactly the oldest value if the window was full.
C17_WindowsAreFifo ==
    [][ (MessageStep /\ cycle' # None) =>
          /\ Len(btc_prices') <= WINDOW_SIZE
          /\ Len(eth_prices') <= WINDOW_SIZE
          /\ Len(spread_history') <= WINDOW_SIZE
          /\ IF Val(cycle').stage \in PriceStages
             THEN \/ Pushed(btc_prices, btc_prices') /\ eth_prices' = eth_prices
                  \/ Pushed(eth_prices, eth_prices') /\ btc_prices' = btc_prices
             ELSE btc_prices' = btc_prices /\ eth_prices' = eth_prices
          /\ IF Val(cycle').stage \in SpreadStages
             THEN Pushed(spread_history, spread_history')
             ELSE spread_history' = spread_history ]_vars

\* C17 witness: a message beyond the recorded stream was appended to full windows
\* whose oldest and newest values differ.
C17_Witness ==
    /\ nmsgs > 0
    /\ cycle # None
    /\ Val(cycle).stage \in SpreadStages
    /\ Len(btc_prices) = WINDOW_SIZE
    /\ Len(eth_prices) = WINDOW_SIZE
    /\ Len(spread_history) = WINDOW_SIZE
    /\ btc_prices[1] # btc_prices[WINDOW_SIZE]
    /\ spread_history[1] # spread_history[WINDOW_SIZE]

\* C18: a process_message call pushes a spread exactly when it appended a price
\* and both price windows then hold at least 2 values; it appends a snapshot to
\* the history and evaluates alerts only when the spread window then holds at
\* least MinSpreads values, and otherwise leaves history and latest_alert alone.
C18_SpreadAndSnapshotGates ==
    [][ (MessageStep /\ cycle' # None) =>
          /\ Val(cycle').stage \in SpreadStages <=>
                /\ Val(cycle').stage \in PriceStages
                /\ Len(btc_prices') >= 2
                /\ Len(eth_prices') >= 2
          /\ IF Val(cycle').stage \in {"weak", "alerts"}
             THEN /\ Len(spread_history') >= MinSpreads
                  /\ history_data' # <<>>
                  /\ history_data'[Len(history_data')].spread = spread_history'[Len(spread_history')]
                  /\ history_data'[Len(history_data')].timestamp = now
             ELSE /\ Val(cycle').stage = "spread" => Len(spread_history') < MinSpreads
                  /\ history_data' = history_data
                  /\ latest_alert' = latest_alert ]_vars

\* C18 witness: the call that brought the spread window to MinSpreads values
\* appended the first snapshot to the history.
C18_Witness ==
    /\ cycle # None
    /\ Val(cycle).stage = "alerts"
    /\ Len(spread_history) = MinSpreads
    /\ history_data # MockHistory
    /\ history_data[Len(history_data)].spread = spread_history[MinSpreads]
    /\ \A i \in 1..(Len(history_data) - 1) : history_data[i] = MockHistory[i + 1]

\* The last call appended a snapshot to the history; its zscore is the float of
\* lines 99-101, a number in every case.
SnapshotPublished == cycle # None /\ Val(cycle).stage \in {"weak", "alerts"}

\* n^2 times the population variance of the spread window
SpreadVariance ==
    Len(spread_history) * SumProd(spread_history, spread_history)
        - SumSeq(spread_history) * SumSeq(spread_history)

\* C19: no snapshot carries a z-score computed from a nonzero deviation while the
\* spread window, filled from empty, has received fewer than WINDOW_SIZE values.
C19_NoZScoreBeforeWindowFull ==
    (SnapshotPublished /\ SpreadVariance > 0) => Len(spread_history) >= WINDOW_SIZE

\* C20: no snapshot carries a z-score, and no alert evaluation sees one, when the
\* standard deviation of the spread window is zero.
C20_NoZScoreAtZeroVariance ==
    SnapshotPublished => SpreadVariance > 0

(***************************************************************************)
(* Properties of the Sampler                                               *)
(***************************************************************************)
\* sum of bar.count over a log of bars
RECURSIVE CountSum(_, _)
CountSum(bars, n) == IF n = 0 THEN 0 ELSE bars[n].count + CountSum(bars, n - 1)
TradeCount(bars) == CountSum(bars, Len(bars))

ActiveCount(key) == IF active_bars[key] = None THEN 0 ELSE Val(active_bars[key]).count

\* C10 as stated: for one (symbol, timeframe), once every bar is finalized (no bar
\* is active), the trade counts of the emitted bars add up to the number of
\* non-late ticks admitted.
C10_EmittedCountsAllTicks ==
    \A key \in Keys :
        active_bars[key] = None => TradeCount(emitted[key]) = Len(admitted[key])

\* C10 amended: for one (symbol, timeframe), the trade counts of the emitted bars,
\* of the bars discarded by _finalize_bar and of the active bar add up to the
\* number of non-late ticks admitted.
C10_CountsAccountForTicks ==
    \A key \in Keys :
        TradeCount(emitted[key]) + TradeCount(dropped[key]) + ActiveCount(key)
            = Len(admitted[key])

\* C10 witness: a key with an emitted bar, a discarded bar and an active bar.
C10_Witness ==
    \E key \in Keys :
        /\ emitted[key] # <<>>
        /\ dropped[key] # <<>>
        /\ active_bars[key] # None

\* The bars of a key: those _finalize_bar was called on, and the active one.
Finalized(key) == emitted[key] \o dropped[key]
BarsOf(key) ==
    { Finalized(key)[i] : i \in 1..Len(Finalized(key)) }
        \cup (IF active_bars[key] = None THEN {} ELSE {Val(active_bars[key])})

Max2(a, b) == IF a >= b THEN a ELSE b
Min2(a, b) == IF a <= b THEN a ELSE b

\* C11: every active and every finalized bar of key (symbol, timeframe) starts at
\* an exact multiple of the timeframe, ends one timeframe later, and has
\* high >= max(open, close) and low <= min(open, close).
C11_BarsWellFormed ==
    \A key \in Keys : \A bar \in BarsOf(key) :
        /\ bar.start_time % key[2] = 0
        /\ bar.end_time = bar.start_time + key[2]
        /\ bar.high >= Max2(bar.open, bar.close)
        /\ bar.low <= Min2(bar.open, bar.close)

\* C11 witness: an emitted bar of a timeframe longer than a second, opened at a
\* timestamp inside its period, whose low lies below both open and close.
C11_Witness ==
    \E key \in Keys : \E i \in 1..Len(emitted[key]) :
        /\ key[2] > 1
        /\ admitted[key][1].timestamp > emitted[key][i].start_time
        /\ emitted[key][i].low < Min2(emitted[key][i].open, emitted[key][i].close)

\* C14: no bar with volume <= 0 or close <= 0 is emitted.
C14_NoEmptyBarEmitted ==
    \A key \in Keys : \A i \in 1..Len(emitted[key]) :
        emitted[key][i].volume > 0 /\ emitted[key][i].close > 0

\* C14 witness: _finalize_bar was called on a bar without volume and on a bar with
\* volume and close 0, and emitted neither, while it emitted another bar.
C14_Witness ==
    \E key \in Keys :
        /\ emitted[key] # <<>>
        /\ \E i \in 1..Len(dropped[key]) : dropped[key][i].volume <= 0
        /\ \E i \in 1..Len(dropped[key]) :
              dropped[key][i].volume > 0 /\ dropped[key][i].close <= 0

\* The call finalized bar for key: _finalize_bar logged it or discarded it.
FinalizedNow(key, bar) ==
    \/ emitted'[key] = Append(emitted[key], bar) /\ dropped'[key] = dropped[key]
    \/ dropped'[key] = Append(dropped[key], bar) /\ emitted'[key] = emitted[key]

\* The active bar of key has end_time before the clock reading t.
Stale(key, t) == active_bars[key] # None /\ Val(active_bars[key]).end_time < t

\* C12: every process_tick call, whatever its tick, finalizes and removes every
\* active bar of every key whose end_time is before the clock it reads first, and
\* leaves no active bar with end_time before that clock.
C12_SweepFirst ==
    [][ tick_call' # None =>
          \A key \in Keys :
              /\ Stale(key, Val(tick_call').t1) =>
                    /\ FinalizedNow(key, Val(active_bars[key]))
                    /\ active_bars'[key] # active_bars[key]
              /\ active_bars'[key] # None =>
                    Val(active_bars'[key]).end_time >= Val(tick_call').t1 ]_vars

\* C12 witness: a tick of one symbol has just finalized an idle bar of the other.
C12_Witness ==
    /\ tick_call # None
    /\ Val(tick_call).tick # None
    /\ \E key \in Val(tick_call).swept :
          /\ key[1] # Val(Val(tick_call).tick).symbol
          /\ active_bars[key] = None
          /\ Finalized(key) # <<>>

\* The tick is late for timeframe tf at clock reading t.
Late(tick, tf, t) == get_period_start(tick.timestamp, tf) + tf < t

\* C13: a tick that is late for a timeframe leaves the key (symbol, timeframe) as
\* the closure check left it (no bar created, modified or finalized by the tick),
\* and is applied to every timeframe for which it is not late.
C13_LateTickSkipsTimeframe ==
    [][ (tick_call' # None /\ Val(tick_call').tick # None) =>
          LET c == Val(tick_call')
              tick == Val(c.tick)
          IN \A i \in 1..Len(timeframes) :
                LET key == <<tick.symbol, timeframes[i]>> IN
                IF Late(tick, key[2], c.t2)
                THEN /\ admitted'[key] = admitted[key]
                     /\ IF Stale(key, c.t1)
                        THEN active_bars'[key] = None /\ FinalizedNow(key, Val(active_bars[key]))
                        ELSE /\ active_bars'[key] = active_bars[key]
                             /\ emitted'[key] = emitted[key]
                             /\ dropped'[key] = dropped[key]
                ELSE /\ admitted'[key] = Append(admitted[key], tick)
                     /\ active_bars'[key] # None
                     /\ Val(active_bars'[key]).close = tick.price
                     /\ Val(active_bars'[key]).start_time = get_period_start(tick.timestamp, key[2]) ]_vars

\* C13 witness: the last tick was late for one timeframe, whose key holds nothing
\* of it, and opened a bar in another.
C13_Witness ==
    /\ tick_call # None
    /\ Val(tick_call).tick # None
    /\ LET c == Val(tick_call)
           tick == Val(c.tick)
       IN \E i, j \in 1..Len(timeframes) :
             /\ Late(tick, timeframes[i], c.t2)
             /\ admitted[<<tick.symbol, timeframes[i]>>] = <<>>
             /\ active_bars[<<tick.symbol, timeframes[i]>>] = None
             /\ ~Late(tick, timeframes[j], c.t2)
             /\ admitted[<<tick.symbol, timeframes[j]>>] = <<tick>>
             /\ active_bars[<<tick.symbol, timeframes[j]>>] # None

\* C15: a non-late tick for a key whose active bar (left by the closure check) has
\* another start_time finalizes that bar in the same call and replaces it by a bar
\* opened from the tick; a key never has more than one active bar.
C15_MismatchFinalizesAndReopens ==
    [][ (tick_call' # None /\ Val(tick_call').tick # None) =>
          LET c == Val(tick_call')
              tick == Val(c.tick)
          IN \A i \in 1..Len(timeframes) :
                LET key == <<tick.symbol, timeframes[i]>>
                    period_start == get_period_start(tick.timestamp, key[2])
                IN /\ Len(active_bars'[key]) <= 1
                   /\ ( /\ ~Late(tick, key[2], c.t2)
                        /\ active_bars[key] # None
                        /\ ~Stale(key, c.t1)
                        /\ Val(active_bars[key]).start_time # period_start )
                      => /\ FinalizedNow(key, Val(active_bars[key]))
                         /\ active_bars'[key] =
                               Some([symbol |-> tick.symbol, start_time |-> period_start,
                                     end_time |-> period_start + key[2],
                                     open |-> tick.price, high |-> tick.price,
                                     low |-> tick.price, close |-> tick.price,
                                     volume |-> tick.quantity, count |-> 1]) ]_vars

\* C15 witness: two ticks were processed, both admitted for one key in different
\* periods; the bar of the first was finalized although its end_time had not
\* passed, and the bar of the second is active.
C15_Witness ==
    /\ nticks = 2
    /\ tick_call # None
    /\ \E key \in Keys :
          /\ Len(admitted[key]) = 2
          /\ Len(Finalized(key)) = 1
          /\ Finalized(key)[1].end_time >= Val(tick_call).t1
          /\ Finalized(key)[1].start_time = get_period_start(admitted[key][1].timestamp, key[2])
          /\ active_bars[key] # None
          /\ Val(active_bars[key]).count = 1
          /\ Val(active_bars[key]).start_time = get_period_start(admitted[key][2].timestamp, key[2])
          /\ Val(active_bars[key]).start_time # Finalized(key)[1].start_time

\* The period of the i-th tick admitted for key.
PeriodOf(key, i) == get_period_start(admitted[key][i].timestamp, key[2])

\* The ticks admitted for key whose period starts at P, in order of arrival.
PeriodTicks(key, P) ==
    SelectSeq(admitted[key], LAMBDA tick : get_period_start(tick.timestamp, key[2]) = P)

RECURSIVE MaxPrice(_, _), MinPrice(_, _), SumQuantity(_, _)
MaxPrice(ticks, n) == IF n = 1 THEN ticks[1].price ELSE Max2(ticks[n].price, MaxPrice(ticks, n - 1))
MinPrice(ticks, n) == IF n = 1 THEN ticks[1].price ELSE Min2(ticks[n].price, MinPrice(ticks, n - 1))
SumQuantity(ticks, n) == IF n = 0 THEN 0 ELSE ticks[n].quantity + SumQuantity(ticks, n - 1)

\* bar is the OHLCV summary of the non-empty sequence ticks.
Summarizes(bar, ticks) ==
    /\ ticks # <<>>
    /\ bar.open = ticks[1].price
    /\ bar.close = ticks[Len(ticks)].price
    /\ bar.high = MaxPrice(ticks, Len(ticks))
    /\ bar.low = MinPrice(ticks, Len(ticks))
    /\ bar.volume = SumQuantity(ticks, Len(ticks))
    /\ bar.count = Len(ticks)

\* C16 as stated: every finalized bar of a key summarizes all the ticks admitted
\* for the key in the bar's period.
C16_BarSummarizesPeriod ==
    \A key \in Keys : \A n \in 1..Len(Finalized(key)) :
        Summarizes(Finalized(key)[n], PeriodTicks(key, Finalized(key)[n].start_time))

\* Ticks i..j admitted for key are a maximal run of consecutive ticks of period P.
IsRun(key, i, j, P) ==
    /\ \A k \in i..j : PeriodOf(key, k) = P
    /\ i = 1 \/ PeriodOf(key, i - 1) # P
    /\ j = Len(admitted[key]) \/ PeriodOf(key, j + 1) # P

\* The number of maximal runs of equal period among the ticks admitted for key.
Runs(key) ==
    Cardinality({ i \in 1..Len(admitted[key]) : i = 1 \/ PeriodOf(key, i - 1) # PeriodOf(key, i) })

\* The ticks admitted for key arrived in timestamp order.
InOrder(key) ==
    \A i \in 1..Len(admitted[key]) : \A j \in i..Len(admitted[key]) :
        admitted[key][i].timestamp <= admitted[key][j].timestamp

\* C16 amended: every finalized bar of a key summarizes a maximal run of
\* consecutive admitted ticks of its period (first price, last price, maximum,
\* minimum, sum of quantities, number), and the key has as many bars as runs;
\* when the admitted ticks arrived in timestamp order, the run is all the ticks
\* admitted for the period.
C16_BarSummarizesRun ==
    \A key \in Keys :
        /\ InOrder(key) =>
              \A n \in 1..Len(Finalized(key)) :
                  Summarizes(Finalized(key)[n], PeriodTicks(key, Finalized(key)[n].start_time))
        /\ \A n \in 1..Len(Finalized(key)) :
              \E i \in 1..Len(admitted[key]) : \E j \in i..Len(admitted[key]) :
                  /\ IsRun(key, i, j, Finalized(key)[n].start_time)
                  /\ Summarizes(Finalized(key)[n], SubSeq(admitted[key], i, j))
        /\ Len(Finalized(key)) + Len(active_bars[key]) = Runs(key)

\* C16 witness: a finalized bar that summarizes its run of ticks while more ticks
\* were admitted for its period.
C16_Witness ==
    \E key \in Keys : \E n \in 1..Len(Finalized(key)) :
        Len(PeriodTicks(key, Finalized(key)[n].start_time)) > Finalized(key)[n].count

\* ---------------------------------------------------------------------------
\* The reset of the alert engine and the entry filters

\* The entry filters fail on a recorded call whose inputs are all defined.
FiltersFail(k) ==
    \/ Val(k.rolling_correlation) < min_correlation
    \/ k.adf_result # Some([is_stationary |-> TRUE])

\* C30: a call made in state LONG or SHORT with every input defined and
\* |z_score| < reset_threshold leaves the engine in NONE and returns no alert,
\* also when the correlation is below min_correlation or the series is not
\* stationary: the reset does not depend on the entry filters.
C30_ResetNotGatedByFilters ==
    call # None =>
        LET k == Val(call) IN
        (k.pre \in {"LONG", "SHORT"} /\ AllDefined(k)
            /\ Abs(Val(k.z_score)) < reset_threshold) =>
                current_state = "NONE" /\ k.ret = None

\* C30 witness: a held SHORT is reset by a call whose correlation is below the
\* minimum and whose series is not stationary.
C30_Witness ==
    /\ call # None
    /\ Val(call).pre = "SHORT"
    /\ AllDefined(Val(call))
    /\ Abs(Val(Val(call).z_score)) < reset_threshold
    /\ Val(Val(call).rolling_correlation) < min_correlation
    /\ Val(call).adf_result = Some([is_stationary |-> FALSE])
    /\ FiltersFail(Val(call))
    /\ current_state = "NONE"

\* ---------------------------------------------------------------------------
\* The correlation of a published snapshot

\* The most recent n values of a window, oldest first.
MostRecent(window, n) == [i \in 1..n |-> window[Len(window) - n + i]]

\* n^2 times the population variance of a series of n values
VarianceN2(x) == Len(x) * SumProd(x, x) - SumSeq(x) * SumSeq(x)

\* n^2 times the population covariance of two series of n values
CovarianceN2(x, y) == Len(x) * SumProd(x, y) - SumSeq(x) * SumSeq(y)

AlignedLen == Min(Len(btc_prices), Len(eth_prices))

\* C22: the correlation of a published snapshot is undefined when the price
\* windows hold fewer than 20 aligned values or when either aligned tail has
\* zero variance; when it is a number, it is the Pearson correlation of the most
\* recent AlignedLen >= 20 values of both windows, and the snapshot appended to
\* the history carries the same value.
C22_CorrelationOfAlignedTail ==
    SnapshotPublished =>
        LET corr == Val(cycle).correlation
            x == MostRecent(btc_prices, AlignedLen)
            y == MostRecent(eth_prices, AlignedLen)
        IN /\ history_data[Len(history_data)].correlation = corr
           /\ (AlignedLen < 20 \/ VarianceN2(x) = 0 \/ VarianceN2(y) = 0) => corr = None
           /\ corr # None =>
                /\ AlignedLen >= 20
                /\ Val(corr).num = CovarianceN2(x, y)
                /\ Val(corr).den2 = VarianceN2(x) * VarianceN2(y)
                /\ Val(corr).num * Val(corr).num <= Val(corr).den2

\* C22 witness: a snapshot with a correlation computed while the two price
\* windows differ in length, so that the tail of the longer one is what counts.
C22_Witness ==
    /\ SnapshotPublished
    /\ Val(cycle).correlation # None
    /\ Len(btc_prices) # Len(eth_prices)
    /\ MostRecent(btc_prices, AlignedLen) # SubSeq(btc_prices, 1, AlignedLen)

\* C22 second witness state: twenty or more aligned values and no correlation,
\* one tail being constant.
C22_ConstantTail ==
    /\ SnapshotPublished
    /\ AlignedLen >= 20
    /\ Val(cycle).correlation = None

\* ---------------------------------------------------------------------------
\* Malformed messages

\* A message without price field, with a price that is no number, or of a
\* symbol other than the two of the pair.
Malformed(data) ==
    \/ data.p.kind \in {"missing", "text"}
    \/ data.s \notin {"BTCUSDT", "ETHUSDT"}

\* C23: process_message on a malformed message changes neither price window,
\* nor the spread window, the history or the latest alert.
C23_MalformedMessageDropped ==
    [][ \A data \in Messages :
            (Malformed(data) /\ MessageStep /\ Receive(data)) =>
                UNCHANGED <<btc_prices, eth_prices, spread_history, history_data, latest_alert>>
      ]_vars

\* The same for the messages the code does drop: an unparseable price (the
\* exception of float() is caught at line 71) and an unknown symbol (line 66).
C23_UnparseableOrUnknownDropped ==
    [][ \A data \in Messages :
            ((data.p.kind = "text" \/ data.s \notin {"BTCUSDT", "ETHUSDT"})
                /\ MessageStep /\ Receive(data)) =>
                UNCHANGED <<btc_prices, eth_prices, spread_history, history_data, latest_alert>>
      ]_vars

\* ---------------------------------------------------------------------------
\* The published alert between publications

\* The step is a message cycle in which update_alerts publishes an alert.
Publishes == MessageStep /\ cycle' # None /\ Val(cycle').published

\* C24: no step other than a publication changes a field of the published alert.
C24_PublishedAlertImmutable ==
    [][ ~Publishes => latest_alert' = latest_alert ]_vars

\* The same for the ingestion task alone: a message cycle that publishes no
\* alert leaves the published alert as it is.
C24_TickWithoutAlertKeepsAlert ==
    [][ (MessageStep /\ ~Publishes) => latest_alert' = latest_alert ]_vars

\* ---------------------------------------------------------------------------
\* The bar sampler and the price windows in one pipeline

\* The step is a message cycle that admitted a trade: its price went into a
\* price window.
AdmitsTick == MessageStep /\ cycle' # None /\ Val(cycle').stage \in PriceStages

\* C26: the cycle of every trade the running pipeline admits hands the tick to
\* the bar sampler once (one more call of process_tick), in the cycle that
\* pushes its price.
C26_TickReachesSamplerAndWindows ==
    [][ AdmitsTick =>
            /\ nticks' = nticks + 1
            /\ tick_call' # None
      ]_vars

\* What the code does instead: the pipeline that fills the price windows never
\* touches the sampler, and the program that drives the sampler never touches
\* the price windows.
C26_PipelinesAreDisjoint ==
    [][ /\ MessageStep => UNCHANGED samplerVars
        /\ nticks' # nticks => UNCHANGED pipeVars ]_vars

\* ---------------------------------------------------------------------------
\* The order of the finalized bars of one key

\* C29: the bars _finalize_bar has logged for one key, in the order it logged
\* them, have strictly increasing start_time: no period is finalized twice and
\* no period is finalized after a later one.
C29_FinalizedStartTimesIncrease ==
    \A key \in Keys : \A i, j \in 1..Len(emitted[key]) :
        i < j => emitted[key][i].start_time < emitted[key][j].start_time

\* C29 amended: when the ticks admitted for a key carry timestamps in order
\* (equal timestamps and timestamps ahead of the clock included), the bars logged
\* for the key have strictly increasing start_time.
C29_IncreaseWhenInOrder ==
    \A key \in Keys :
        InOrder(key) =>
            \A i, j \in 1..Len(emitted[key]) :
                i < j => emitted[key][i].start_time < emitted[key][j].start_time

\* C29 witness: a key whose ticks came in order, one of them twice with the same
\* timestamp, and which has two logged bars.
C29_Witness ==
    \E key \in Keys :
        /\ InOrder(key)
        /\ Len(emitted[key]) >= 2
        /\ \E i \in 1..(Len(admitted[key]) - 1) :
               admitted[key][i].timestamp = admitted[key][i + 1].timestamp

(***************************************************************************)
(* Properties of the analytics library                                     *)
(***************************************************************************)
LibCalled(fn) == lib_call # None /\ Val(lib_call).fn = fn

\* The values of positions i-window+1..i of the series are all the same: the
\* sample standard deviation of the window is zero.
ConstantWindow(series, i, window) ==
    \A a, b \in (i - window + 1)..i : series[a] = series[b]

\* What the claim says of the array returned for a series and a window > 1.
ZArrayOk(k) ==
    /\ "returns" \in DOMAIN k.result
    /\ LET z == k.result.returns IN
       /\ Len(z) = Len(k.series)
       /\ \A i \in 1..Len(z) :
            /\ z[i].kind # "inf"
            /\ i < k.window => z[i] = NaN
            /\ (i >= k.window /\ ConstantWindow(k.series, i, k.window)) => z[i] = NaN
            /\ (i >= k.window /\ ~ConstantWindow(k.series, i, k.window)) => z[i].kind = "num"

FiniteCount(series) == Cardinality({ i \in 1..Len(series) : series[i].kind = "num" })

C27_AdfullerRaised ==
    /\ LibCalled("run_adf_test")
    /\ Val(lib_call).adfuller = Some(Raises("LinAlgError"))
    /\ Val(lib_call).result = Returns(NeutralResult)
C27_Stationary ==
    /\ LibCalled("run_adf_test")
    /\ Val(lib_call).result.returns.is_stationary

\* A precondition of the hedge ratio and of the spread fails: series of unequal
\* length, fewer than two values, or a value that is not finite.
PreconditionFails(x, y) ==
    \/ Len(x) # Len(y)
    \/ Len(x) < 2
    \/ \E i \in 1..Len(x) : x[i].kind # "num"
    \/ \E i \in 1..Len(y) : y[i].kind # "num"

\* C28: compute_hedge_ratio returns None, and does not raise, whenever a
\* precondition fails; compute_spread under the same failed preconditions (or
\* without a hedge ratio) does not raise and returns no number.
C28_UndefinedNotRaised ==
    /\ LibCalled("compute_hedge_ratio") =>
          (PreconditionFails(Val(lib_call).x, Val(lib_call).y) =>
              Val(lib_call).result = Returns(None))
    /\ LibCalled("compute_spread") =>
          ((PreconditionFails(Val(lib_call).x, Val(lib_call).y)
                \/ Val(lib_call).hedge_ratio = None) =>
              /\ "returns" \in DOMAIN Val(lib_call).result
              /\ \A i \in 1..Len(Val(lib_call).result.returns) :
                    Val(lib_call).result.returns[i].kind # "num")

\* The part of C28 the code does keep: compute_hedge_ratio returns None for
\* series of equal length that are too short or hold a value that is not finite,
\* and a slope otherwise.
C28_HedgeRatioNoneOnShortOrNonFinite ==
    LibCalled("compute_hedge_ratio") =>
        LET k == Val(lib_call) IN
        Len(k.x) = Len(k.y) =>
            /\ "returns" \in DOMAIN k.result
            /\ k.result.returns = None <=> PreconditionFails(k.x, k.y)

\* compute_hedge_ratio and compute_spread raise on series of unequal length.
C28_RaisesOnUnequalLength ==
    (lib_call # None /\ Val(lib_call).fn \in {"compute_hedge_ratio", "compute_spread"}
        /\ Len(Val(lib_call).x) # Len(Val(lib_call).y)) =>
            Val(lib_call).result = Raises("ValueError")

(***************************************************************************)
(* Properties of the event loop                                            *)
(***************************************************************************)
\* C25: a request handler never runs while process_message is between its
\* first and its last statement: what a handler finds in memory is the state
\* between two messages, with no more than WINDOW_SIZE snapshots in history_data
\* (never the appended snapshot together with the one still to be evicted).
C25_HandlersSeeCompletedTicks ==
    loop.seen # None =>
        /\ Val(loop.seen).pc = "recv"
        /\ Val(loop.seen).points_collected <= WINDOW_SIZE

\* The statements of process_message taken one by one make the state that the
\* call as a whole makes: whenever the task is back in recv after a message, the
\* three windows hold at most WINDOW_SIZE values and so does the history.
C25_StepsCompose ==
    loop.pc = "recv" =>
        /\ loop.before = None /\ loop.data = None
        /\ Len(history_data) <= WINDOW_SIZE
        /\ Len(spread_history) <= Len(btc_prices) + Len(eth_prices)

\* C25 witness: a handler ran right after a message cycle that appended a
\* snapshot and evicted the oldest one.
C25_Witness ==
    /\ loop.seen # None
    /\ nmsgs > 0
    /\ cycle # None /\ Val(cycle).stage \in {"weak", "alerts"}
    /\ Val(loop.seen).points_collected = WINDOW_SIZE
    /\ Val(loop.seen).spreads = Len(spread_history)
    /\ history_data[Len(history_data)].timestamp = now

\* The state a handler must not find: the snapshot appended, the oldest one not
\* yet removed.
C25_MidUpdate == loop.pc = "appended" /\ Len(history_data) = WINDOW_SIZE + 1

(***************************************************************************)
(* Properties of the HTTP interface                                        *)
(***************************************************************************)
\* A configuration is valid: entry threshold > exit threshold and
\* 0 <= min_correlation <= 1, as comparisons of numbers (a NaN is above nothing
\* and inside no range).
FloatGt(a, b) ==
    /\ a.kind # "nan" /\ b.kind # "nan"
    /\ \/ a.kind = "num" /\ b.kind = "num" /\ a.v > b.v
       \/ a.kind = "inf" /\ a.sign = 1 /\ b # a
       \/ b.kind = "inf" /\ b.sign = -1 /\ a # b
ValidConfig(c) ==
    /\ FloatGt(c.zscore_entry_threshold, c.zscore_exit_threshold)
    /\ c.min_correlation.kind = "num"
    /\ c.min_correlation.v >= 0 /\ c.min_correlation.v <= 10

PostedConfig == http # None /\ Val(http).route = "POST /config"

\* C31: the current configuration is valid after any sequence of POST /config
\* requests, and a request whose body is not valid is answered with an error and
\* is not the current configuration afterwards.
C31_ConfigStaysValid ==
    /\ ValidConfig(CURRENT_CONFIG)
    /\ (PostedConfig /\ ~ValidConfig(Val(http).request)) =>
          /\ Val(http).status = 400
          /\ CURRENT_CONFIG # Val(http).request

\* The same for bodies of finite numbers only: a body of three finite numbers
\* is accepted exactly when it is valid, and a rejected request changes nothing.
FiniteConfig(c) ==
    /\ c.zscore_entry_threshold.kind = "num"
    /\ c.zscore_exit_threshold.kind = "num"
    /\ c.min_correlation.kind = "num"
C31_FiniteBodiesValidated ==
    [][ (http' # None /\ Val(http').route = "POST /config") =>
            /\ FiniteConfig(Val(http').request) =>
                  (Val(http').status = 200 <=> ValidConfig(Val(http').request))
            /\ Val(http').status = 200 => CURRENT_CONFIG' = Val(http').request
            /\ Val(http').status = 400 => CURRENT_CONFIG' = CURRENT_CONFIG
      ]_vars

\* The snapshots of a history are in non-decreasing order of their timestamps.
Ordered(history) ==
    \A i \in 1..(Len(history) - 1) : history[i].timestamp <= history[i + 1].timestamp

GotHistory == http # None /\ Val(http).route = "GET /analytics/history"

\* C32: the snapshot history never holds more than WINDOW_SIZE entries and is
\* in non-decreasing timestamp order, a GET /analytics/history request returns
\* the history as it is then, and every step that changes the history, of the
\* ingestion task or of the handler, appends one snapshot at the end and removes
\* the oldest one.
C32_HistoryBoundedOrderedFifo ==
    /\ [](Len(history_data) <= WINDOW_SIZE /\ Ordered(history_data))
    /\ [][ /\ history_data' # history_data => Pushed(history_data, history_data')
           /\ (http' # http /\ http' # None) => Val(http').body = history_data' ]_vars

\* C32 witness: the handler returned a history whose newest entry it added
\* itself, one minute after a snapshot of the ingestion task, with mock
\* snapshots still in front.
C32_Witness ==
    /\ GotHistory
    /\ Val(http).body = history_data
    /\ now > StartTime
    /\ Len(history_data) = WINDOW_SIZE
    /\ history_data[WINDOW_SIZE].timestamp = now
    /\ history_data[WINDOW_SIZE - 1].timestamp = StartTime
    /\ history_data[WINDOW_SIZE - 1].hedge_ratio = 10 * HEDGE_RATIO
    /\ history_data[1].hedge_ratio = MockHistory[1].hedge_ratio
    /\ history_data[1].timestamp > MockHistory[1].timestamp

\* The line csv.writer writes for a row: str() of a number or a bool, the empty
\* text for None.
CsvLine(row) ==
    << [str |-> row.timestamp], [str |-> row.zscore], [str |-> row.spread],
       IF row.correlation = None THEN "" ELSE [str |-> Val(row.correlation)],
       IF row.is_stationary THEN "True" ELSE "False", row.alert >>

AnsweredCsv == http # None /\ Val(http).route = "GET /analytics/stats/csv"
AnsweredStats == http # None /\ Val(http).route = "GET /analytics/stats"

\* C33: every GET /analytics/stats/csv request succeeds and yields the header
\* and then one line per snapshot of the history, newest first, with the values
\* of the row GET /analytics/stats computes for that snapshot under the
\* configuration in force.
C33_CsvMatchesStats ==
    [][ (http' # http /\ AnsweredCsv') =>
            /\ Val(http').status = 200
            /\ Len(Val(http').body) = 1 + Len(history_data')
            /\ Val(http').body[1] = CsvHeader
            /\ \A i \in 1..Len(history_data') :
                  Val(http').body[i + 1] = CsvLine(StatsRows(history_data', CURRENT_CONFIG')[i])
      ]_vars

\* C33 (what the code does): every GET /analytics/stats/csv request is answered
\* with status 500 and no body, the history never being empty, while GET
\* /analytics/stats answers 200 with one row per snapshot, newest first, whose
\* flags follow the configuration in force.
C33_CsvFailsStatsAnswers ==
    /\ [](Len(history_data) > 0)
    /\ [][ /\ (http' # http /\ AnsweredCsv') =>
                Val(http').status = 500 /\ Val(http').body = None
           /\ (http' # http /\ AnsweredStats') =>
                /\ Val(http').status = 200
                /\ Len(Val(http').body.rows) = Len(history_data')
                /\ \A i \in 1..Len(history_data') :
                     LET row == Val(http').body.rows[i]
                         point == history_data'[Len(history_data') + 1 - i]
                     IN /\ row.timestamp = point.timestamp
                        /\ row.zscore = point.zscore
                        /\ row.is_stationary =
                             AbsLtTenths(point.zscore, CURRENT_CONFIG'.zscore_entry_threshold)
                        /\ (row.alert = "SHORT") =
                             GtTenths(point.zscore, CURRENT_CONFIG'.zscore_entry_threshold)
      ]_vars

\* C33: a failed GET /analytics/stats/csv after the ingestion task has added a
\* snapshot and POST /config has changed the entry threshold.
C33_CsvFailed ==
    /\ AnsweredCsv
    /\ Val(http).status = 500
    /\ history_data[Len(history_data)].hedge_ratio = 10 * HEDGE_RATIO
    /\ CURRENT_CONFIG # DefaultConfig

====
